---------------------------- MODULE Spec2Model ----------------------------
(***************************************************************************)
(* Model of claude-export: the compact JSON handoff (export-continue.js,   *)
(* lines 1-534 of src/scripts/export-continue.js) and the narrative        *)
(* Markdown export (export-chat.js, lines 536-1246 of the same file).      *)
(*                                                                         *)
(* Strings are sequences of one-character strings, so that substring,      *)
(* split, join, trim and the decimal rendering of numbers are computed as  *)
(* the JavaScript computes them.                                           *)
(***************************************************************************)
EXTENDS Integers, Sequences, FiniteSets, TLC

VARIABLES
    entries,    \* the parsed records handed to the formatters (parseJsonl's result)
    git,        \* what getGitContext returns for this run
    handoff,    \* <<>> before extractHandoff has run, <<h>> with its result after
    chat,       \* <<>> before convertToMarkdown has run, <<c>> with its result after
    now,        \* the wall clock new Date() reads, in ticks of half a second
    earlier,    \* <<>>, or <<r>> with the handoff and chat of the run before this one
    jsonl,      \* the session file: its lines, and whether main has parsed it yet
    run,        \* one run of main: its arguments, the file system it meets, its position
    tFn,        \* truncation helper under test ("none" before the first call)
    tMax,       \* its budget argument
    tIn,        \* the argument of the most recent call
    tOut,       \* the value returned by the most recent call
    tN,         \* number of calls made so far
    files,      \* candidate session files of CLAUDE_PROJECT_DIR, in readdir order
    lastEntry,  \* per candidate: <<>> or <<getLastEntryTimestamp(file)>>
    chosen,     \* 0 before main has selected, else the index of files[0] after the sort
    disk,       \* the installer's file system: content of each path of SRC_DIR and TARGET_DIR
    inst        \* one run of install(): its position in FILES and its counters

logVars == <<entries, git, handoff, chat, now, earlier, jsonl, run>>
truncVars == <<tFn, tMax, tIn, tOut, tN>>
selVars == <<files, lastEntry, chosen>>
instVars == <<disk, inst>>
vars == <<entries, git, handoff, chat, now, earlier, jsonl, run, tFn, tMax, tIn, tOut, tN, files, lastEntry, chosen, disk, inst>>

-----------------------------------------------------------------------------
(* Bounds of the model *)

\* longest text handed to a truncation helper
MaxLen == 4
\* largest truncation budget tried
MaxBudget == 2
\* longest log (number of records) handed to a formatter
MaxLog == 3
\* most candidate files in the session directory
MaxFiles == 2
\* latest instant a timestamp or an mtime names
MaxTime == 3
\* most lines of a candidate file whose trailing window is scanned
MaxLines == 2
\* number of distinct contents a file of the installer's file system can have
MaxVersion == 2
\* most changes made to the package or to the project between installer runs
MaxChanges == 2

-----------------------------------------------------------------------------
(* JavaScript string primitives on character sequences *)

Min(a, b) == IF a <= b THEN a ELSE b
Max(a, b) == IF a >= b THEN a ELSE b

\* String.prototype.substring(0, n) for n >= 0
Substring0(s, n) == SubSeq(s, 1, Min(n, Len(s)))

\* String.prototype.substring(n)
SubstringFrom(s, n) == SubSeq(s, Min(n, Len(s)) + 1, Len(s))

RECURSIVE Digits(_)
\* `${n}`: the decimal rendering of a non-negative integer
Digits(n) ==
    LET d == <<"0", "1", "2", "3", "4", "5", "6", "7", "8", "9">>
    IN IF n < 10 THEN <<d[n + 1]>> ELSE Digits(n \div 10) \o <<d[(n % 10) + 1]>>

RECURSIVE SplitFrom(_, _, _)
SplitFrom(s, i, cur) ==
    IF i > Len(s) THEN <<cur>>
    ELSE IF s[i] = "\n" THEN <<cur>> \o SplitFrom(s, i + 1, <<>>)
    ELSE SplitFrom(s, i + 1, Append(cur, s[i]))

\* text.split("\n"): always at least one line
SplitLines(s) == SplitFrom(s, 1, <<>>)

RECURSIVE JoinLines(_)
\* lines.join("\n")
JoinLines(ls) ==
    IF Len(ls) = 0 THEN <<>>
    ELSE IF Len(ls) = 1 THEN ls[1]
    ELSE ls[1] \o <<"\n">> \o JoinLines(Tail(ls))

IsSpace(c) == c \in {" ", "\n", "\t"}

RECURSIVE TrimLeft(_)
TrimLeft(s) == IF Len(s) > 0 /\ IsSpace(s[1]) THEN TrimLeft(Tail(s)) ELSE s

RECURSIVE TrimRight(_)
TrimRight(s) ==
    IF Len(s) > 0 /\ IsSpace(s[Len(s)]) THEN TrimRight(SubSeq(s, 1, Len(s) - 1)) ELSE s

\* String.prototype.trim
Trim(s) == TrimRight(TrimLeft(s))

-----------------------------------------------------------------------------
(* Truncation helpers *)

Ellipsis == <<".", ".", ".">>

\* a truncate that has lost its early return: the marker is appended to every text
truncateNoGuard(text, max) == Substring0(text, max) \o Ellipsis

\* export-continue.js truncate(text, max)
truncate(text, max) ==
    IF Len(text) = 0 \/ Len(text) <= max THEN text
    ELSE Substring0(text, max) \o Ellipsis

CharsMarkerHead == <<"\n", ".", ".", ".", " ", "(", "t", "r", "u", "n", "c", "a", "t", "e", "d", " ", "a", "t", " ">>
CharsMarkerMid == <<" ", "c", "h", "a", "r", "s", ",", " ", "t", "o", "t", "a", "l", " ">>
CharsMarkerTail == <<")">>

\* `\n... (truncated at ${maxChars} chars, total ${text.length})`
CharsMarker(maxChars, total) ==
    CharsMarkerHead \o Digits(maxChars) \o CharsMarkerMid \o Digits(total) \o CharsMarkerTail

\* a truncateChars that cuts one character short of the budget
truncateCharsShort(text, maxChars) ==
    IF Len(text) <= maxChars THEN text
    ELSE Substring0(text, Max(maxChars - 1, 0)) \o CharsMarker(maxChars, Len(text))

\* export-chat.js truncateChars(text, maxChars)
truncateChars(text, maxChars) ==
    IF Len(text) <= maxChars THEN text
    ELSE Substring0(text, maxChars) \o CharsMarker(maxChars, Len(text))

LinesMarkerHead == <<"\n", ".", ".", ".", " ", "(">>
LinesMarkerMid == <<" ", "m", "o", "r", "e", " ", "l", "i", "n", "e", "s", " ", "t", "r", "u", "n", "c", "a", "t", "e", "d", ",", " ", "t", "o", "t", "a", "l", " ">>
LinesMarkerTail == <<" ", "l", "i", "n", "e", "s", ")">>

\* `\n... (${dropped} more lines truncated, total ${lines.length} lines)`
LinesMarker(dropped, total) ==
    LinesMarkerHead \o Digits(dropped) \o LinesMarkerMid \o Digits(total) \o LinesMarkerTail

\* export-chat.js truncateLines(text, maxLines)
truncateLines(text, maxLines) ==
    LET lines == SplitLines(text)
    IN IF Len(lines) <= maxLines THEN text
       ELSE JoinLines(Append(SubSeq(lines, 1, maxLines),
                             LinesMarker(Len(lines) - maxLines, Len(lines))))

\* the call truncate / truncateChars / truncateLines by name
ApplyTrunc(fn, text, max) ==
    CASE fn = "truncate" -> truncate(text, max)
      [] fn = "truncateChars" -> truncateChars(text, max)
      [] fn = "truncateLines" -> truncateLines(text, max)

-----------------------------------------------------------------------------
(* stripSystemTags and shortPath *)

\* the least index i >= from at which pat occurs in s, 0 when there is none
IndexOf(s, pat, from) ==
    LET c == {i \in from..(Len(s) - Len(pat) + 1) : SubSeq(s, i, i + Len(pat) - 1) = pat}
    IN IF c = {} THEN 0 ELSE CHOOSE i \in c : \A j \in c : i <= j

\* String.prototype.lastIndexOf(pat), 1-based, 0 when there is none
LastIndexOf(s, pat) ==
    LET c == {i \in 1..(Len(s) - Len(pat) + 1) : SubSeq(s, i, i + Len(pat) - 1) = pat}
    IN IF c = {} THEN 0 ELSE CHOOSE i \in c : \A j \in c : i >= j

SystemTags ==
    << <<"s", "y", "s", "t", "e", "m", "-", "r", "e", "m", "i", "n", "d", "e", "r">>,
       <<"i", "d", "e", "_", "o", "p", "e", "n", "e", "d", "_", "f", "i", "l", "e">>,
       <<"i", "d", "e", "_", "s", "e", "l", "e", "c", "t", "i", "o", "n">>,
       <<"u", "s", "e", "r", "-", "p", "r", "o", "m", "p", "t", "-", "s", "u", "b", "m", "i", "t", "-", "h", "o", "o", "k">>,
       <<"c", "o", "m", "m", "a", "n", "d", "-", "m", "e", "s", "s", "a", "g", "e">>,
       <<"c", "o", "m", "m", "a", "n", "d", "-", "n", "a", "m", "e">> >>

OpenTag(t) == <<"<">> \o t \o <<">">>
CloseTag(t) == <<"<", "/">> \o t \o <<">">>

RECURSIVE RemoveTag(_, _)
\* text.replace(/<t>[\s\S]*?<\/t>/g, ""): every shortest <t>...</t> span, left to right
RemoveTag(s, t) ==
    LET i == IndexOf(s, OpenTag(t), 1)
        j == IF i = 0 THEN 0 ELSE IndexOf(s, CloseTag(t), i + Len(OpenTag(t)))
    IN IF i = 0 \/ j = 0 THEN s
       ELSE SubSeq(s, 1, i - 1) \o RemoveTag(SubSeq(s, j + Len(CloseTag(t)), Len(s)), t)

RECURSIVE RemoveTags(_, _)
RemoveTags(s, k) ==
    IF k > Len(SystemTags) THEN s ELSE RemoveTags(RemoveTag(s, SystemTags[k]), k + 1)

\* stripSystemTags(text)
stripSystemTags(text) == Trim(RemoveTags(text, 1))

\* process.cwd() and detectProjectName(PROJECT_ROOT) of the run
PROJECT_ROOT == <<"/", "p">>
PROJECT_NAME == <<"p">>

\* fp.replace(/\\/g, "/")
Slashes(fp) == [i \in 1..Len(fp) |-> IF fp[i] = "\\" THEN "/" ELSE fp[i]]

\* shortPath(fp)
shortPath(fp) ==
    LET normalized == Slashes(fp)
        rootNormalized == Slashes(PROJECT_ROOT)
        projIdx == LastIndexOf(normalized, PROJECT_NAME)
    IN IF Substring0(normalized, Len(rootNormalized)) = rootNormalized
       THEN SubstringFrom(normalized, Len(rootNormalized) + 1)
       ELSE IF projIdx > 0
            THEN SubstringFrom(normalized, (projIdx - 1) + Len(PROJECT_NAME) + 1)
            ELSE normalized

-----------------------------------------------------------------------------
(* Records of the log.  A record has a type, a message role, a timestamp   *)
(* (0: none) and a content that is an array of blocks or not an array.     *)
(* Blocks and tool inputs are records with every field present; an empty   *)
(* string, 0 or FALSE stands for a field the JSON does not carry.          *)

NoInput ==
    [file_path |-> <<>>, content |-> <<>>,
     has_old |-> FALSE, old_string |-> <<>>, has_new |-> FALSE, new_string |-> <<>>,
     replace_all |-> FALSE,
     command |-> <<>>, description |-> <<>>,
     has_pattern |-> FALSE, pattern |-> <<>>, path |-> <<>>, glob |-> <<>>,
     has_todos |-> FALSE, todos |-> <<>>,
     prompt |-> <<>>, subagent_type |-> <<>>]

NoBlock ==
    [type |-> "", text |-> <<>>, thinking |-> <<>>,
     name |-> "", id |-> 0, input |-> NoInput,
     tool_use_id |-> 0, content |-> <<>>, is_error |-> FALSE]

TextBlock(t) == [NoBlock EXCEPT !.type = "text", !.text = t]
ThinkingBlock(t) == [NoBlock EXCEPT !.type = "thinking", !.thinking = t]
ImageBlock == [NoBlock EXCEPT !.type = "image"]
ToolUse(name, id, input) ==
    [NoBlock EXCEPT !.type = "tool_use", !.name = name, !.id = id, !.input = input]
ToolResult(id, isError, content) ==
    [NoBlock EXCEPT !.type = "tool_result", !.tool_use_id = id,
                    !.is_error = isError, !.content = content]

Entry(type, role, content) ==
    [type |-> type, role |-> role, timestamp |-> 0, isArray |-> TRUE, content |-> content]

-----------------------------------------------------------------------------
(* parseJsonl (both scripts carry the same function).  A line of the file   *)
(* is its text, whether JSON.parse accepts it, and the value it parses to:  *)
(* a record, or a JSON literal that is no object.                           *)

Line0(text, ok, value) == [text |-> text, ok |-> ok, value |-> value]
JsonLiteral(v) == [json |-> v]

\* the values JavaScript takes for false: null, false, 0 and the empty string
Falsy == {JsonLiteral("null"), JsonLiteral("false"), JsonLiteral("0"), JsonLiteral("\"\"")}

\* try { return JSON.parse(l); } catch { return null; }
ParseLine(l) == IF l.ok THEN l.value ELSE JsonLiteral("null")

RECURSIVE parseJsonlStopsAtError(_)
\* a parser that gives up at the first line JSON.parse rejects
parseJsonlStopsAtError(lines) ==
    IF lines = <<>> \/ ~lines[1].ok THEN <<>>
    ELSE <<lines[1].value>> \o parseJsonlStopsAtError(Tail(lines))

\* lines 99-108 and 721-734; lines is the file split at "\n"
parseJsonl(lines) ==
    LET nonBlank == SelectSeq(lines, LAMBDA l : Trim(l.text) # <<>>)
        parsed == [n \in 1..Len(nonBlank) |-> ParseLine(nonBlank[n])]
    IN SelectSeq(parsed, LAMBDA v : v \notin Falsy)

\* content.some((c) => c.type === "tool_result")
HasToolResult(content) == \E k \in 1..Len(content) : content[k].type = "tool_result"

-----------------------------------------------------------------------------
(* buildToolResultMap (both scripts carry the same function).  The map is a *)
(* function from the ids seen so far to {content, is_error}; src is not in  *)
(* the code: it records the <<record, block>> position the value was built  *)
(* from, so that properties can say which outcome block an invocation got.  *)

\* map[id] = value
MapPut(map, id, value) ==
    [x \in (DOMAIN map) \cup {id} |-> IF x = id THEN value ELSE map[x]]

\* map[id] as <<>> (undefined) or <<value>>
MapGet(map, id) == IF id \in DOMAIN map THEN <<map[id]>> ELSE <<>>

RECURSIVE MapBlocks(_, _, _, _)
\* a correlator that keeps the first outcome seen for an id instead of the last
MapBlocksFirstWins(content, i, k, map) ==
    IF k > Len(content) THEN map
    ELSE LET block == content[k]
         IN IF block.type = "tool_result" /\ block.tool_use_id # 0
               /\ block.tool_use_id \notin DOMAIN map
            THEN MapBlocks(content, i, k + 1,
                           MapPut(map, block.tool_use_id,
                                  [content |-> block.content,
                                   is_error |-> block.is_error,
                                   src |-> <<i, k>>]))
            ELSE MapBlocks(content, i, k + 1, map)

\* a correlator that files an outcome under block.id, which a tool_result block
\* does not carry, instead of under block.tool_use_id
MapBlocksKeyedById(content, i, k, map) ==
    IF k > Len(content) THEN map
    ELSE LET block == content[k]
         IN IF block.type = "tool_result" /\ block.tool_use_id # 0
            THEN MapBlocks(content, i, k + 1,
                           MapPut(map, block.id,
                                  [content |-> block.content,
                                   is_error |-> block.is_error,
                                   src |-> <<i, k>>]))
            ELSE MapBlocks(content, i, k + 1, map)

\* the inner loop of buildToolResultMap over the blocks of record i, from block k
MapBlocks(content, i, k, map) ==
    IF k > Len(content) THEN map
    ELSE LET block == content[k]
         IN IF block.type = "tool_result" /\ block.tool_use_id # 0
            THEN MapBlocks(content, i, k + 1,
                           MapPut(map, block.tool_use_id,
                                  [content |-> block.content,
                                   is_error |-> block.is_error,
                                   src |-> <<i, k>>]))
            ELSE MapBlocks(content, i, k + 1, map)

RECURSIVE MapEntries(_, _, _)
\* the outer loop of buildToolResultMap, from record i
MapEntries(es, i, map) ==
    IF i > Len(es) THEN map
    ELSE IF es[i].type # "user" \/ ~es[i].isArray
         THEN MapEntries(es, i + 1, map)
         ELSE MapEntries(es, i + 1, MapBlocks(es[i].content, i, 1, map))

\* buildToolResultMap(entries)
buildToolResultMap(es) == MapEntries(es, 1, <<>>)

-----------------------------------------------------------------------------
(* extractHandoff: the main loop (lines 193-305).  The accumulator holds    *)
(* the loop's collections; fileChanges and filesRead are sequences in       *)
(* insertion order, which is the order Object.entries and the Set iterate.  *)
(* invs is not in the code: it lists, per tool_use block the loop handled,  *)
(* the locals name, block.id, result and isError of lines 222-225.          *)

LinesWritten == <<" ", "l", "i", "n", "e", "s", " ", "w", "r", "i", "t", "t", "e", "n">>
FileCreated == <<"f", "i", "l", "e", " ", "c", "r", "e", "a", "t", "e", "d">>
EchoPrefix == <<"e", "c", "h", "o", " ">>
TxtUndefined == <<"u", "n", "d", "e", "f", "i", "n", "e", "d">>
Unknown == <<"u", "n", "k", "n", "o", "w", "n">>

\* JSON.stringify(input), abridged to the braces around the string fields it carries
JsonStringify(input) ==
    <<"{">> \o input.file_path \o input.command \o input.pattern \o input.prompt \o <<"}">>

EmptyAcc ==
    [userMessages |-> <<>>, fileChanges |-> <<>>, filesRead |-> <<>>,
     errors |-> <<>>, actions |-> <<>>, searches |-> <<>>,
     hasTodos |-> FALSE, latestTodos |-> <<>>, toolCallCount |-> 0, invs |-> <<>>]

\* the position of file sp in fileChanges, 0 when fileChanges[sp] is undefined
ChangeIndex(fc, sp) ==
    LET c == {n \in 1..Len(fc) : fc[n].file = sp}
    IN IF c = {} THEN 0 ELSE CHOOSE n \in c : TRUE

\* fileChanges[sp] = value
ChangePut(fc, sp, value) ==
    IF ChangeIndex(fc, sp) = 0 THEN Append(fc, value)
    ELSE [fc EXCEPT ![ChangeIndex(fc, sp)] = value]

\* result.content.split("\n").filter(Boolean).length
NonEmptyLineCount(text) ==
    Cardinality({n \in 1..Len(SplitLines(text)) : SplitLines(text)[n] # <<>>})

\* lines 227-237: the errors entry of a failed invocation
ErrorEntry(name, input, result) ==
    [tool |-> name,
     error |-> truncate(result.content, 300),
     input_summary |->
        IF name = "Bash" THEN truncate(input.command, 200)
        ELSE IF name \in {"Read", "Write", "Edit"} THEN shortPath(input.file_path)
        ELSE truncate(JsonStringify(input), 200)]

\* a Write that keeps the edits recorded for the file so far
AfterWriteKeepsEdits(fc, input) ==
    LET sp == shortPath(input.file_path)
        old == ChangeIndex(fc, sp)
    IN ChangePut(fc, sp,
          [file |-> sp, action |-> "created",
           summary |-> IF input.content # <<>>
                       THEN Digits(Len(SplitLines(input.content))) \o LinesWritten
                       ELSE FileCreated,
           hasEdits |-> IF old = 0 THEN FALSE ELSE fc[old].hasEdits,
           edits |-> IF old = 0 THEN <<>> ELSE fc[old].edits])

\* a Write whose summary counts the lines that are not empty
AfterWriteNonEmptyLines(fc, input) ==
    LET sp == shortPath(input.file_path)
    IN ChangePut(fc, sp,
          [file |-> sp, action |-> "created",
           summary |-> IF input.content # <<>>
                       THEN Digits(NonEmptyLineCount(input.content)) \o LinesWritten
                       ELSE FileCreated,
           hasEdits |-> FALSE, edits |-> <<>>])

\* lines 239-246: fileChanges after a Write
AfterWrite(fc, input) ==
    LET sp == shortPath(input.file_path)
    IN ChangePut(fc, sp,
          [file |-> sp, action |-> "created",
           summary |-> IF input.content # <<>>
                       THEN Digits(Len(SplitLines(input.content))) \o LinesWritten
                       ELSE FileCreated,
           hasEdits |-> FALSE, edits |-> <<>>])

\* lines 247-258: fileChanges after an Edit
AfterEdit(fc, input) ==
    LET sp == shortPath(input.file_path)
        fc1 == IF ChangeIndex(fc, sp) = 0
               THEN Append(fc, [file |-> sp, action |-> "modified", summary |-> <<>>,
                                hasEdits |-> TRUE, edits |-> <<>>])
               ELSE [fc EXCEPT ![ChangeIndex(fc, sp)].action = "modified"]
        n == ChangeIndex(fc1, sp)
    IN IF input.has_old /\ input.has_new
       THEN [fc1 EXCEPT ![n].hasEdits = TRUE,
                        ![n].edits = Append(fc1[n].edits,
                              [removed |-> truncate(input.old_string, 200),
                               added |-> truncate(input.new_string, 200),
                               replace_all |-> input.replace_all])]
       ELSE fc1

\* filesRead.add(sp)
SetAdd(seq, x) == IF \E n \in 1..Len(seq) : seq[n] = x THEN seq ELSE Append(seq, x)

\* lines 263-276: the actions entry of a Bash invocation
BashEntry(cmd, input, result, isError) ==
    LET content == IF result = <<>> THEN <<>> ELSE result[1].content
        hasOutput == ~isError /\ content # <<>>
    IN [command |-> truncate(cmd, 300),
        description |-> input.description,
        agent |-> <<>>,
        failed |-> isError,
        hasOutput |-> hasOutput,
        output |-> IF ~hasOutput THEN <<>>
                   ELSE IF Len(SplitLines(content)) <= 5 THEN Trim(content)
                   ELSE truncate(content, 200),
        result |-> <<>>]

\* lines 278-289: the searches entry of a Grep or Glob invocation
SearchEntry(type, input, result) ==
    LET content == IF result = <<>> THEN <<>> ELSE result[1].content
    IN [type |-> type, hasPattern |-> input.has_pattern, pattern |-> input.pattern,
        path |-> IF input.path # <<>> THEN shortPath(input.path) ELSE <<>>,
        glob |-> IF type = "grep" THEN input.glob ELSE <<>>,
        hasMatches |-> content # <<>>,
        matches |-> IF content # <<>> THEN NonEmptyLineCount(content) ELSE 0]

\* lines 293-302: the actions entry of a Task invocation
TaskEntry(input, result, isError) ==
    LET content == IF result = <<>> THEN <<>> ELSE result[1].content
    IN [command |-> truncate(IF input.command # <<>> THEN input.command ELSE input.prompt, 300),
        description |-> input.description,
        agent |-> IF input.subagent_type # <<>> THEN input.subagent_type ELSE Unknown,
        failed |-> isError,
        hasOutput |-> FALSE,
        output |-> <<>>,
        result |-> IF content # <<>> THEN truncate(content, 300) ELSE <<>>]

\* a tool_use block whose side effects are recorded only when its outcome is no error
HandleToolUseSkipsFailedEffects(acc, block, i, k, map) ==
    LET name == block.name
        input == block.input
        result == MapGet(map, block.id)
        isError == result # <<>> /\ result[1].is_error
        cmd == Trim(input.command)
    IN [acc EXCEPT
          !.toolCallCount = @ + 1,
          !.invs = Append(@, [rec |-> i, blk |-> k, name |-> name, id |-> block.id,
                              result |-> result, isError |-> isError]),
          !.errors = IF isError THEN Append(@, ErrorEntry(name, input, result[1])) ELSE @,
          !.fileChanges =
              IF isError THEN @
              ELSE IF name = "Write" /\ input.file_path # <<>> THEN AfterWrite(@, input)
              ELSE IF name = "Edit" /\ input.file_path # <<>> THEN AfterEdit(@, input)
              ELSE @,
          !.filesRead =
              IF ~isError /\ name = "Read" /\ input.file_path # <<>>
              THEN SetAdd(@, shortPath(input.file_path)) ELSE @,
          !.actions =
              IF name = "Bash" /\ input.command # <<>>
                 /\ Len(cmd) > 5 /\ Substring0(cmd, 5) # EchoPrefix
              THEN Append(@, BashEntry(cmd, input, result, isError))
              ELSE IF name = "Task" THEN Append(@, TaskEntry(input, result, isError))
              ELSE @,
          !.searches =
              IF name = "Grep" THEN Append(@, SearchEntry("grep", input, result))
              ELSE IF name = "Glob" THEN Append(@, SearchEntry("glob", input, result))
              ELSE @,
          !.hasTodos = IF name = "TodoWrite" /\ input.has_todos THEN TRUE ELSE @,
          !.latestTodos = IF name = "TodoWrite" /\ input.has_todos THEN input.todos ELSE @]

\* lines 219-302: one tool_use block, block k of record i
HandleToolUse(acc, block, i, k, map) ==
    LET name == block.name
        input == block.input
        result == MapGet(map, block.id)
        isError == result # <<>> /\ result[1].is_error
        cmd == Trim(input.command)
    IN [acc EXCEPT
          !.toolCallCount = @ + 1,
          !.invs = Append(@, [rec |-> i, blk |-> k, name |-> name, id |-> block.id,
                              result |-> result, isError |-> isError]),
          !.errors = IF isError THEN Append(@, ErrorEntry(name, input, result[1])) ELSE @,
          !.fileChanges =
              IF name = "Write" /\ input.file_path # <<>> THEN AfterWrite(@, input)
              ELSE IF name = "Edit" /\ input.file_path # <<>> THEN AfterEdit(@, input)
              ELSE @,
          !.filesRead =
              IF name = "Read" /\ input.file_path # <<>>
              THEN SetAdd(@, shortPath(input.file_path)) ELSE @,
          !.actions =
              IF name = "Bash" /\ input.command # <<>>
                 /\ Len(cmd) > 5 /\ Substring0(cmd, 5) # EchoPrefix
              THEN Append(@, BashEntry(cmd, input, result, isError))
              ELSE IF name = "Task" THEN Append(@, TaskEntry(input, result, isError))
              ELSE @,
          !.searches =
              IF name = "Grep" THEN Append(@, SearchEntry("grep", input, result))
              ELSE IF name = "Glob" THEN Append(@, SearchEntry("glob", input, result))
              ELSE @,
          !.hasTodos = IF name = "TodoWrite" /\ input.has_todos THEN TRUE ELSE @,
          !.latestTodos = IF name = "TodoWrite" /\ input.has_todos THEN input.todos ELSE @]

RECURSIVE UserTextsVerbatim(_, _, _)
\* the text blocks of a user record, cleaned and kept in full
UserTextsVerbatim(content, k, msgs) ==
    IF k > Len(content) THEN msgs
    ELSE LET cleaned == stripSystemTags(content[k].text)
         IN IF content[k].type = "text" /\ cleaned # <<>>
            THEN UserTextsVerbatim(content, k + 1, Append(msgs, cleaned))
            ELSE UserTextsVerbatim(content, k + 1, msgs)

RECURSIVE UserTexts(_, _, _)
\* lines 209-214: the cleaned, truncated text blocks of a user record
UserTexts(content, k, msgs) ==
    IF k > Len(content) THEN msgs
    ELSE LET cleaned == stripSystemTags(content[k].text)
         IN IF content[k].type = "text" /\ cleaned # <<>>
            THEN UserTexts(content, k + 1, Append(msgs, truncate(cleaned, 500)))
            ELSE UserTexts(content, k + 1, msgs)

RECURSIVE ToolBlocks(_, _, _, _, _)
\* lines 218-303: the tool_use blocks of an assistant record
ToolBlocks(content, i, k, acc, map) ==
    IF k > Len(content) THEN acc
    ELSE IF content[k].type # "tool_use" THEN ToolBlocks(content, i, k + 1, acc, map)
    ELSE ToolBlocks(content, i, k + 1, HandleToolUse(acc, content[k], i, k, map), map)

\* a main loop that takes the text of every user record, outcome containers included
MainLoopEntryTakesContainerText(acc, entry, i, map) ==
    IF ~entry.isArray THEN acc
    ELSE IF entry.type = "user" /\ entry.role = "user"
    THEN [acc EXCEPT !.userMessages = UserTexts(entry.content, 1, @)]
    ELSE IF entry.type = "assistant" /\ entry.role = "assistant"
    THEN ToolBlocks(entry.content, i, 1, acc, map)
    ELSE acc

\* lines 203-304: one record of the main loop
MainLoopEntry(acc, entry, i, map) ==
    IF ~entry.isArray THEN acc
    ELSE IF entry.type = "user" /\ entry.role = "user"
    THEN IF HasToolResult(entry.content) THEN acc
         ELSE [acc EXCEPT !.userMessages = UserTexts(entry.content, 1, @)]
    ELSE IF entry.type = "assistant" /\ entry.role = "assistant"
    THEN ToolBlocks(entry.content, i, 1, acc, map)
    ELSE acc

RECURSIVE MainLoop(_, _, _, _)
\* lines 202-305
MainLoop(es, i, acc, map) ==
    IF i > Len(es) THEN acc
    ELSE MainLoop(es, i + 1, MainLoopEntry(acc, es[i], i, map), map)

-----------------------------------------------------------------------------
(* extractHandoff: conversation digest (lines 307-337), progress (339-347), *)
(* search de-duplication (349-355) and assembly (357-403).                  *)

RECURSIVE UserDigestText(_, _, _)
\* lines 318-324: the cleaned text blocks of a user record joined by " "
UserDigestText(content, k, text) ==
    IF k > Len(content) THEN text
    ELSE LET cleaned == stripSystemTags(content[k].text)
         IN IF content[k].type = "text" /\ cleaned # <<>>
            THEN UserDigestText(content, k + 1,
                                text \o (IF text # <<>> THEN <<" ">> ELSE <<>>) \o cleaned)
            ELSE UserDigestText(content, k + 1, text)

RECURSIVE AssistantDigestText(_, _, _)
\* lines 329-334: the trimmed text blocks of an assistant record joined by " "
AssistantDigestText(content, k, text) ==
    IF k > Len(content) THEN text
    ELSE IF content[k].type = "text" /\ Trim(content[k].text) # <<>>
         THEN AssistantDigestText(content, k + 1,
                 text \o (IF text # <<>> THEN <<" ">> ELSE <<>>) \o Trim(content[k].text))
         ELSE AssistantDigestText(content, k + 1, text)

\* a digest loop that lets every user record open a turn, outcome containers included
DigestEntryCountsOutcomes(d, entry, i) ==
    IF ~entry.isArray THEN d
    ELSE IF entry.type = "user" /\ entry.role = "user"
    THEN LET text == UserDigestText(entry.content, 1, <<>>)
         IN [d EXCEPT
               !.turnNum = @ + 1,
               !.digest = IF text = <<>> THEN @
                          ELSE Append(@, [turn |-> d.turnNum + 1, role |-> "user",
                                          content |-> truncate(text, 300)]),
               !.recs = IF text = <<>> THEN @ ELSE Append(@, i)]
    ELSE IF entry.type = "assistant" /\ entry.role = "assistant"
    THEN LET text == AssistantDigestText(entry.content, 1, <<>>)
         IN IF text = <<>> THEN d
            ELSE [d EXCEPT
                    !.digest = Append(@, [turn |-> d.turnNum, role |-> "assistant",
                                          content |-> truncate(text, 300)]),
                    !.recs = Append(@, i)]
    ELSE d

\* a digest loop that numbers assistant segments with a counter of their own
DigestEntryOwnCounter(d, entry, i) ==
    IF ~entry.isArray THEN d
    ELSE IF entry.type = "user" /\ entry.role = "user"
    THEN IF HasToolResult(entry.content) THEN d
         ELSE LET text == UserDigestText(entry.content, 1, <<>>)
              IN [d EXCEPT
                    !.turnNum = @ + 1,
                    !.digest = IF text = <<>> THEN @
                               ELSE Append(@, [turn |-> d.turnNum + 1, role |-> "user",
                                               content |-> truncate(text, 300)]),
                    !.recs = IF text = <<>> THEN @ ELSE Append(@, i)]
    ELSE IF entry.type = "assistant" /\ entry.role = "assistant"
    THEN LET text == AssistantDigestText(entry.content, 1, <<>>)
             own == Cardinality({n \in 1..Len(d.digest) : d.digest[n].role = "assistant"}) + 1
         IN IF text = <<>> THEN d
            ELSE [d EXCEPT
                    !.digest = Append(@, [turn |-> own, role |-> "assistant",
                                          content |-> truncate(text, 300)]),
                    !.recs = Append(@, i)]
    ELSE d

\* lines 311-336: one record of the digest loop.  d.recs is not in the code: it
\* lists, per digest segment, the index of the record the segment was built from.
DigestEntry(d, entry, i) ==
    IF ~entry.isArray THEN d
    ELSE IF entry.type = "user" /\ entry.role = "user"
    THEN IF HasToolResult(entry.content) THEN d
         ELSE LET text == UserDigestText(entry.content, 1, <<>>)
              IN [d EXCEPT
                    !.turnNum = @ + 1,
                    !.digest = IF text = <<>> THEN @
                               ELSE Append(@, [turn |-> d.turnNum + 1, role |-> "user",
                                               content |-> truncate(text, 300)]),
                    !.recs = IF text = <<>> THEN @ ELSE Append(@, i)]
    ELSE IF entry.type = "assistant" /\ entry.role = "assistant"
    THEN LET text == AssistantDigestText(entry.content, 1, <<>>)
         IN IF text = <<>> THEN d
            ELSE [d EXCEPT
                    !.digest = Append(@, [turn |-> d.turnNum, role |-> "assistant",
                                          content |-> truncate(text, 300)]),
                    !.recs = Append(@, i)]
    ELSE d

\* lines 308-309: the empty digest and the turn counter at 0
EmptyDigest == [digest |-> <<>>, turnNum |-> 0, recs |-> <<>>]

RECURSIVE DigestLoop(_, _, _)
\* lines 308-337
DigestLoop(es, i, d) ==
    IF i > Len(es) THEN d ELSE DigestLoop(es, i + 1, DigestEntry(d, es[i], i))

\* t.content of every todo of a bucket, in order
Contents(todos) == [n \in 1..Len(todos) |-> todos[n].content]

\* a progress view whose pending bucket takes only the items of status "pending"
ProgressPendingOnly(acc) ==
    LET todos == IF acc.hasTodos THEN acc.latestTodos ELSE <<>>
        IsCompleted(t) == t.status = "completed"
        IsInProgress(t) == t.status = "in_progress"
        IsPending(t) == t.status = "pending"
    IN [completed |-> Contents(SelectSeq(todos, IsCompleted)),
        in_progress |-> Contents(SelectSeq(todos, IsInProgress)),
        pending |-> Contents(SelectSeq(todos, IsPending))]

\* lines 340-347
Progress(acc) ==
    LET todos == IF acc.hasTodos THEN acc.latestTodos ELSE <<>>
        IsCompleted(t) == t.status = "completed"
        IsInProgress(t) == t.status = "in_progress"
        IsPending(t) == t.status # "completed" /\ t.status # "in_progress"
    IN [completed |-> Contents(SelectSeq(todos, IsCompleted)),
        in_progress |-> Contents(SelectSeq(todos, IsInProgress)),
        pending |-> Contents(SelectSeq(todos, IsPending))]

\* line 353: s.type + ":" + s.pattern; a pattern that is undefined reads "undefined"
SearchKey(s) ==
    (IF s.type = "grep" THEN <<"g", "r", "e", "p">> ELSE <<"g", "l", "o", "b">>)
    \o <<":">>
    \o (IF s.hasPattern THEN s.pattern ELSE TxtUndefined)

RECURSIVE UniqueSearches(_, _, _)
\* lines 350-355: the first search of every key
UniqueSearches(searches, n, unique) ==
    IF n > Len(searches) THEN unique
    ELSE IF \E m \in 1..Len(unique) : SearchKey(unique[m]) = SearchKey(searches[n])
         THEN UniqueSearches(searches, n + 1, unique)
         ELSE UniqueSearches(searches, n + 1, Append(unique, searches[n]))

\* one property of an object literal: a key, whether its value is defined, the value
Field(key, present, value) == [key |-> key, present |-> present, value |-> value]

\* an assembly that emits every optional collection even when it is empty
JsonObjectKeepAll(fields) ==
    [k \in {fields[n].key : n \in 1..Len(fields)} |->
        fields[CHOOSE n \in 1..Len(fields) : fields[n].key = k].value]

\* JSON.parse(JSON.stringify(object)): properties whose value is undefined are dropped
JsonObject(fields) ==
    [k \in {fields[n].key : n \in {m \in 1..Len(fields) : fields[m].present}} |->
        fields[CHOOSE n \in 1..Len(fields) : fields[n].key = k].value]

\* an element of changes that carries the edits list of an Edit even when it is empty
ChangeEntryKeepsEdits(info) ==
    JsonObject(<< Field("file", TRUE, info.file),
                  Field("action", TRUE, info.action),
                  Field("summary", info.summary # <<>>, info.summary),
                  Field("edits", info.hasEdits, info.edits) >>)

\* lines 378-383: one element of changes
ChangeEntry(info) ==
    JsonObject(<< Field("file", TRUE, info.file),
                  Field("action", TRUE, info.action),
                  Field("summary", info.summary # <<>>, info.summary),
                  Field("edits", info.hasEdits /\ Len(info.edits) > 0, info.edits) >>)

FormatTag == <<"c", "l", "a", "u", "d", "e", "-", "c", "o", "d", "e", "-", "h", "a", "n", "d", "o", "f", "f">>
VersionTag == <<"1", ".", "0">>
NoTask == <<"(", "n", "o", " ", "t", "a", "s", "k", " ", "d", "e", "t", "e", "c", "t", "e", "d", ")">>
SessionId == <<"s">>

\* lines 358-401: the handoff object literal, then the JSON round trip of line 403
Assemble(acc, d, startTs, endTs, sessionId, g) ==
    LET unique == UniqueSearches(acc.searches, 1, <<>>)
    IN JsonObject(<<
          Field("_format", TRUE, FormatTag),
          Field("_version", TRUE, VersionTag),
          Field("_purpose", TRUE, "Structured session export for AI agent continuation."),
          Field("_tool", TRUE, "claude-export (https://github.com/stephenpham68/claude-export)"),
          Field("session", TRUE,
                [id |-> sessionId, project |-> PROJECT_NAME, branch |-> g.branch,
                 started |-> startTs, ended |-> endTs,
                 duration_minutes |-> IF startTs # 0 /\ endTs # 0
                                     THEN (endTs - startTs + 30000) \div 60000 ELSE 0,
                 tool_calls |-> acc.toolCallCount,
                 error_count |-> Len(acc.errors)]),
          Field("task", TRUE,
                IF Len(acc.userMessages) > 0 /\ acc.userMessages[1] # <<>>
                THEN acc.userMessages[1] ELSE NoTask),
          Field("progress", TRUE, Progress(acc)),
          Field("changes", TRUE,
                [n \in 1..Len(acc.fileChanges) |-> ChangeEntry(acc.fileChanges[n])]),
          Field("files_read", TRUE, acc.filesRead),
          Field("errors", Len(acc.errors) > 0, acc.errors),
          Field("actions", Len(acc.actions) > 0, acc.actions),
          Field("searches", Len(unique) > 0,
                [count |-> Len(acc.searches), unique_patterns |-> unique]),
          Field("conversation_digest", TRUE, d.digest),
          Field("git_context", TRUE,
                JsonObject(<<
                   Field("branch", TRUE, g.branch),
                   Field("recent_commits", TRUE, g.recent_commits),
                   Field("uncommitted_changes", Len(g.uncommitted_files) > 0,
                         SubSeq(g.uncommitted_files, 1, Min(20, Len(g.uncommitted_files))))
                >>)) >>)

\* lines 183-189: the first and the last truthy timestamp of the log (0: null)
Timestamps(es) == SelectSeq([n \in 1..Len(es) |-> es[n].timestamp], LAMBDA t : t # 0)
StartTs(es) == IF Timestamps(es) = <<>> THEN 0 ELSE Timestamps(es)[1]
EndTs(es) == IF Timestamps(es) = <<>> THEN 0 ELSE Timestamps(es)[Len(Timestamps(es))]

\* extractHandoff(entries, sessionId) with getGitContext() returning g.  out is the
\* returned object; turnNum, invs and recs are the loops' locals kept for inspection.
extractHandoff(es, sessionId, g) ==
    LET toolResultMap == buildToolResultMap(es)
        acc == MainLoop(es, 1, EmptyAcc, toolResultMap)
        d == DigestLoop(es, 1, EmptyDigest)
    IN [out |-> Assemble(acc, d, StartTs(es), EndTs(es), sessionId, g),
        turnNum |-> d.turnNum,
        invs |-> acc.invs,
        recs |-> d.recs]

-----------------------------------------------------------------------------
(* export-chat.js: collectStats, formatToolCall and convertToMarkdown.     *)
(* The document is kept as the sequence of its sections (a heading, a text, *)
(* a tool call with its inputs and its result body) instead of as lines of  *)
(* Markdown; rec and blk give the record and block a section was built from.*)

DEFAULT_MAX_RESULT_LINES == 150
MAX_WRITE_CONTENT_LINES == 300
MAX_THINKING_CHARS == 2000

EmptyMarker == <<"(", "e", "m", "p", "t", "y", ")">>

EmptyStats ==
    [userTurns |-> 0, assistantMessages |-> 0, toolCalls |-> 0, toolErrors |-> 0,
     thinkingBlocks |-> 0, toolBreakdown |-> <<>>,
     filesRead |-> <<>>, filesWritten |-> <<>>, filesEdited |-> <<>>,
     bashCommands |-> 0, searches |-> 0, start |-> 0, end |-> 0]

\* stats.toolBreakdown[name] = (stats.toolBreakdown[name] || 0) + 1
Tally(breakdown, name) ==
    LET c == {n \in 1..Len(breakdown) : breakdown[n].name = name}
    IN IF c = {} THEN Append(breakdown, [name |-> name, count |-> 1])
       ELSE [breakdown EXCEPT ![CHOOSE n \in c : TRUE].count = @ + 1]

\* lines 859-873: one tool_use block
StatsToolUse(stats, block, map) ==
    LET name == IF block.name = "" THEN "Unknown" ELSE block.name
        result == MapGet(map, block.id)
        input == block.input
    IN [stats EXCEPT
          !.toolCalls = @ + 1,
          !.toolBreakdown = Tally(@, name),
          !.toolErrors = IF result # <<>> /\ result[1].is_error THEN @ + 1 ELSE @,
          !.filesRead = IF name = "Read" /\ input.file_path # <<>>
                        THEN SetAdd(@, shortPath(input.file_path)) ELSE @,
          !.filesWritten = IF name = "Write" /\ input.file_path # <<>>
                           THEN SetAdd(@, shortPath(input.file_path)) ELSE @,
          !.filesEdited = IF name = "Edit" /\ input.file_path # <<>>
                          THEN SetAdd(@, shortPath(input.file_path)) ELSE @,
          !.bashCommands = IF name = "Bash" THEN @ + 1 ELSE @,
          !.searches = IF name \in {"Grep", "Glob"} THEN @ + 1 ELSE @]

RECURSIVE StatsBlocks(_, _, _, _)
\* lines 857-874
StatsBlocks(content, k, stats, map) ==
    IF k > Len(content) THEN stats
    ELSE IF content[k].type = "thinking"
         THEN StatsBlocks(content, k + 1, [stats EXCEPT !.thinkingBlocks = @ + 1], map)
    ELSE IF content[k].type = "tool_use"
         THEN StatsBlocks(content, k + 1, StatsToolUse(stats, content[k], map), map)
    ELSE StatsBlocks(content, k + 1, stats, map)

\* lines 837-875: one record
StatsEntry(stats, entry, map) ==
    LET s1 == IF entry.timestamp # 0
              THEN [stats EXCEPT !.start = IF @ = 0 THEN entry.timestamp ELSE @,
                                 !.end = entry.timestamp]
              ELSE stats
    IN IF entry.type = "user"
       THEN IF ~entry.isArray THEN s1
            ELSE IF HasToolResult(entry.content) THEN s1
            ELSE [s1 EXCEPT !.userTurns = @ + 1]
       ELSE IF entry.type = "assistant"
       THEN IF ~entry.isArray THEN s1
            ELSE StatsBlocks(entry.content, 1,
                    IF \E k \in 1..Len(entry.content) : entry.content[k].type = "text"
                    THEN [s1 EXCEPT !.assistantMessages = @ + 1] ELSE s1,
                    map)
       ELSE s1

RECURSIVE StatsLoop(_, _, _, _)
StatsLoop(es, i, stats, map) ==
    IF i > Len(es) THEN stats ELSE StatsLoop(es, i + 1, StatsEntry(stats, es[i], map), map)

\* collectStats(entries, toolResultMap)
collectStats(es, map) == StatsLoop(es, 1, EmptyStats, map)

NoSection ==
    [kind |-> "", rec |-> 0, blk |-> 0, turn |-> 0, text |-> <<>>,
     name |-> "", id |-> 0, error |-> FALSE, inputs |-> <<>>, shown |-> <<>>,
     result |-> <<>>]

Labelled(label, value) == [label |-> label, value |-> value]

\* lines 893-982: the input part of a tool call, as labelled values
ToolInputs(toolName, input) ==
    CASE toolName = "Bash" ->
            (IF input.description # <<>> THEN <<Labelled("description", input.description)>>
             ELSE <<>>) \o <<Labelled("Command", input.command)>>
      [] toolName = "Read" -> <<Labelled("File", shortPath(input.file_path))>>
      [] toolName = "Write" ->
            <<Labelled("File", shortPath(input.file_path))>> \o
            (IF input.content # <<>>
             THEN <<Labelled("Content written",
                             truncateLines(input.content, MAX_WRITE_CONTENT_LINES))>>
             ELSE <<>>)
      [] toolName = "Edit" ->
            <<Labelled("File", shortPath(input.file_path))>> \o
            (IF input.replace_all THEN <<Labelled("Mode", <<>>)>> ELSE <<>>) \o
            (IF input.has_old THEN <<Labelled("Old", input.old_string)>> ELSE <<>>) \o
            (IF input.has_new THEN <<Labelled("New", input.new_string)>> ELSE <<>>)
      [] toolName \in {"Grep", "Glob"} ->
            <<Labelled("Pattern", input.pattern)>> \o
            (IF input.path # <<>> THEN <<Labelled("Path", shortPath(input.path))>> ELSE <<>>) \o
            (IF toolName = "Grep" /\ input.glob # <<>>
             THEN <<Labelled("Glob", input.glob)>> ELSE <<>>)
      [] toolName = "Task" ->
            <<Labelled("Agent", input.subagent_type)>> \o
            (IF input.description # <<>> THEN <<Labelled("Description", input.description)>>
             ELSE <<>>) \o
            <<Labelled("Prompt", truncateChars(input.prompt, 3000))>>
      [] toolName = "TodoWrite" ->
            <<Labelled("Tasks", <<>>)>> \o
            [n \in 1..Len(input.todos) |-> Labelled(input.todos[n].status, input.todos[n].content)]
      [] OTHER -> <<Labelled("Input", truncateChars(JsonStringify(input), 2000))>>

\* a result part that is rendered only when thinking blocks are rendered too
ToolResultPartWithThinkingOnly(result, isError, opts) ==
    IF ~opts.includeResults \/ ~opts.includeThinking \/ result = <<>> THEN <<>>
    ELSE IF isError
         THEN <<Labelled("Result: ERROR",
                         truncateLines(IF result[1].content # <<>> THEN result[1].content
                                       ELSE EmptyMarker, opts.maxResultLines))>>
    ELSE IF Trim(result[1].content) # <<>>
         THEN <<Labelled("Result", truncateLines(result[1].content, opts.maxResultLines))>>
    ELSE <<>>

\* lines 984-1007: the result part of a tool call: <<>> when nothing is rendered
ToolResultPart(result, isError, opts) ==
    IF ~opts.includeResults \/ result = <<>> THEN <<>>
    ELSE IF isError
         THEN <<Labelled("Result: ERROR",
                         truncateLines(IF result[1].content # <<>> THEN result[1].content
                                       ELSE EmptyMarker, opts.maxResultLines))>>
    ELSE IF Trim(result[1].content) # <<>>
         THEN <<Labelled("Result", truncateLines(result[1].content, opts.maxResultLines))>>
    ELSE <<>>

\* a formatter that marks an invocation without outcome as failed
formatToolCallPendingFails(block, i, k, map, opts) ==
    LET toolName == IF block.name = "" THEN "Unknown" ELSE block.name
        result == MapGet(map, block.id)
        isError == result = <<>> \/ result[1].is_error
    IN [NoSection EXCEPT
          !.kind = "tool", !.rec = i, !.blk = k, !.name = toolName, !.id = block.id,
          !.error = isError,
          !.inputs = ToolInputs(toolName, block.input),
          !.shown = ToolResultPart(result, isError, opts),
          !.result = IF result = <<>> THEN <<>>
                     ELSE <<[src |-> result[1].src, content |-> result[1].content,
                             is_error |-> result[1].is_error,
                             shown |-> ToolResultPart(result, result[1].is_error, opts)]>>]

\* formatToolCall(block, toolResultMap, opts) for block k of record i.  src is not
\* in the code: it is the position of the outcome block the result was built from.
formatToolCall(block, i, k, map, opts) ==
    LET toolName == IF block.name = "" THEN "Unknown" ELSE block.name
        result == MapGet(map, block.id)
        isError == result # <<>> /\ result[1].is_error
    IN [NoSection EXCEPT
          !.kind = "tool", !.rec = i, !.blk = k, !.name = toolName, !.id = block.id,
          !.error = isError,
          !.inputs = ToolInputs(toolName, block.input),
          !.shown = ToolResultPart(result, isError, opts),
          !.result = IF result = <<>> THEN <<>>
                     ELSE <<[src |-> result[1].src, content |-> result[1].content,
                             is_error |-> result[1].is_error,
                             shown |-> ToolResultPart(result, isError, opts)]>>]

RECURSIVE UserSections(_, _, _, _)
\* lines 1109-1116: the text and image blocks of a user turn
UserSections(content, i, k, parts) ==
    IF k > Len(content) THEN parts
    ELSE LET cleaned == stripSystemTags(content[k].text)
         IN IF content[k].type = "text" /\ cleaned # <<>>
            THEN UserSections(content, i, k + 1,
                    Append(parts, [NoSection EXCEPT !.kind = "user-text", !.rec = i,
                                                    !.blk = k, !.text = cleaned]))
            ELSE IF content[k].type = "image"
            THEN UserSections(content, i, k + 1,
                    Append(parts, [NoSection EXCEPT !.kind = "image", !.rec = i, !.blk = k]))
            ELSE UserSections(content, i, k + 1, parts)

\* the "### Assistant" heading pushed before the first rendered block of a record
WithHeading(parts, i, hasContent) ==
    IF hasContent THEN parts
    ELSE Append(parts, [NoSection EXCEPT !.kind = "assistant", !.rec = i])

RECURSIVE AssistantSections(_, _, _, _, _, _, _)
\* lines 1119-1137: the blocks of an assistant record
AssistantSections(content, i, k, parts, hasContent, map, opts) ==
    IF k > Len(content)
    THEN IF hasContent THEN Append(parts, [NoSection EXCEPT !.kind = "rule", !.rec = i])
         ELSE parts
    ELSE LET block == content[k]
             headed == WithHeading(parts, i, hasContent)
         IN IF block.type = "thinking" /\ opts.includeThinking
            THEN AssistantSections(content, i, k + 1,
                    IF Trim(block.thinking) # <<>>
                    THEN Append(headed, [NoSection EXCEPT !.kind = "thinking", !.rec = i,
                                   !.blk = k,
                                   !.text = truncateChars(block.thinking, MAX_THINKING_CHARS)])
                    ELSE headed,
                    TRUE, map, opts)
            ELSE IF block.type = "text"
            THEN AssistantSections(content, i, k + 1,
                    Append(headed, [NoSection EXCEPT !.kind = "text", !.rec = i, !.blk = k,
                                                     !.text = block.text]),
                    TRUE, map, opts)
            ELSE IF block.type = "tool_use"
            THEN AssistantSections(content, i, k + 1,
                    Append(headed, formatToolCall(block, i, k, map, opts)),
                    TRUE, map, opts)
            ELSE AssistantSections(content, i, k + 1, parts, hasContent, map, opts)

\* lines 1094-1138: one record of the conversation loop
ConversationEntry(c, entry, i, map, opts) ==
    IF entry.type # "user" /\ entry.type # "assistant" THEN c
    ELSE IF ~entry.isArray THEN c
    ELSE IF entry.role = "user"
    THEN IF HasToolResult(entry.content) THEN c
         ELSE [c EXCEPT
                 !.turnCount = @ + 1,
                 !.parts = Append(
                     UserSections(entry.content, i, 1,
                        Append(@, [NoSection EXCEPT !.kind = "user", !.rec = i,
                                                    !.turn = c.turnCount + 1])),
                     [NoSection EXCEPT !.kind = "rule", !.rec = i])]
    ELSE IF entry.role = "assistant"
    THEN [c EXCEPT !.parts = AssistantSections(entry.content, i, 1, @, FALSE, map, opts)]
    ELSE c

RECURSIVE ConversationLoopNewestFirst(_, _, _, _, _)
\* a conversation loop that walks the records from the last to the first
ConversationLoopNewestFirst(es, i, c, map, opts) ==
    IF i > Len(es) THEN c
    ELSE ConversationLoopNewestFirst(es, i + 1,
            ConversationEntry(c, es[Len(es) + 1 - i], Len(es) + 1 - i, map, opts), map, opts)

RECURSIVE ConversationLoop(_, _, _, _, _)
\* lines 1091-1139
ConversationLoop(es, i, c, map, opts) ==
    IF i > Len(es) THEN c
    ELSE ConversationLoop(es, i + 1, ConversationEntry(c, es[i], i, map, opts), map, opts)

\* clock ticks per second
TicksPerSecond == 2

\* lines 748-751: a timestamp printed down to its whole seconds
formatTimestamp(ts) == ts \div TicksPerSecond

\* convertToMarkdown(entries, sessionId, opts) with getGitContext() returning g and
\* new Date() returning clock: the statistics the metadata and summary sections
\* print, the conversation, and the export time of the footer
convertToMarkdown(es, sessionId, opts, g, clock) ==
    LET toolResultMap == buildToolResultMap(es)
        stats == collectStats(es, toolResultMap)
        c == ConversationLoop(es, 1, [parts |-> <<>>, turnCount |-> 0], toolResultMap, opts)
    IN [sessionId |-> sessionId, branch |-> g.branch, recentCommits |-> g.recent_commits,
        stats |-> stats, parts |-> c.parts, turnCount |-> c.turnCount, opts |-> opts,
        exportedAt |-> formatTimestamp(clock)]

\* a run of main that is not under way
NoRun ==
    [script |-> "none", list |-> FALSE, arg |-> FALSE, found |-> FALSE, exists |-> FALSE,
     readable |-> FALSE, throws |-> FALSE, dir |-> FALSE, pc |-> "idle", outFile |-> <<>>]

-----------------------------------------------------------------------------
(* Specification of the truncation helpers: a text and a budget are chosen, *)
(* a helper is called on the text, then called again on what it returned.  *)

TruncAlphabet == {"a", ".", "\n"}
TruncTexts == UNION {[1..n -> TruncAlphabet] : n \in 0..MaxLen}
TruncFns == {"truncate", "truncateChars", "truncateLines"}

LogIdle ==
    /\ entries = <<>>
    /\ git = [branch |-> "unknown", recent_commits |-> <<>>, uncommitted_files |-> <<>>]
    /\ handoff = <<>>
    /\ chat = <<>>
    /\ now = 0
    /\ earlier = <<>>
    /\ jsonl = [lines |-> <<>>, parsed |-> TRUE]
    /\ run = NoRun

TruncIdle ==
    /\ tFn = "none"
    /\ tMax = 0
    /\ tIn = <<>>
    /\ tOut = <<>>
    /\ tN = 0

SelIdle ==
    /\ files = <<>>
    /\ lastEntry = <<>>
    /\ chosen = 0

\* no installer runs beside the export scripts
InstIdle ==
    /\ disk = <<>>
    /\ inst = <<>>

InitTrunc ==
    /\ LogIdle
    /\ SelIdle
    /\ InstIdle
    /\ tFn = "none"
    /\ tMax \in 0..MaxBudget
    /\ tIn \in TruncTexts
    /\ tOut = tIn
    /\ tN = 0

\* the first call of a helper on the chosen text
TruncateFirst(fn) ==
    /\ tN = 0
    /\ tFn' = fn
    /\ tOut' = ApplyTrunc(fn, tIn, tMax)
    /\ tN' = 1
    /\ UNCHANGED <<tIn, tMax>>
    /\ UNCHANGED <<logVars, selVars, instVars>>

\* the same helper called on its own result with the same budget
TruncateAgain ==
    /\ tN = 1
    /\ tIn' = tOut
    /\ tOut' = ApplyTrunc(tFn, tOut, tMax)
    /\ tN' = 2
    /\ UNCHANGED <<tFn, tMax>>
    /\ UNCHANGED <<logVars, selVars, instVars>>

NextTrunc ==
    \/ \E fn \in TruncFns : TruncateFirst(fn)
    \/ TruncateAgain

SpecTrunc == InitTrunc /\ [][NextTrunc]_vars

-----------------------------------------------------------------------------
(* Specifications of the two formatters.  A log is drawn from a family of   *)
(* records; the handoff script and the chat script (with the options of its *)
(* command line) each run once on it.                                      *)

TxtHi == <<"h", "i">>
TxtOk == <<"o", "k">>
TxtOut == <<"o", "u", "t">>
TxtCmd == <<"n", "p", "m", " ", "t", "e", "s", "t">>
TxtReminder == <<"<", "s", "y", "s", "t", "e", "m", "-", "r", "e", "m", "i", "n", "d", "e", "r", ">", "x", "<", "/", "s", "y", "s", "t", "e", "m", "-", "r", "e", "m", "i", "n", "d", "e", "r", ">">>
TxtBlank == <<" ">>
PathA == <<"/", "p", "/", "a">>
PathB == <<"b">>

Ids == {1, 2}

BashInput == [NoInput EXCEPT !.command = TxtCmd]

Logs(records) == UNION {[1..n -> records] : n \in 0..MaxLog}

\* what getGitContext can return: the defaults of its catch branch, or a repository
\* without or with uncommitted files
GitContexts ==
    { [branch |-> "unknown", recent_commits |-> <<>>, uncommitted_files |-> <<>>],
      [branch |-> "main", recent_commits |-> <<"c1">>, uncommitted_files |-> <<>>],
      [branch |-> "main", recent_commits |-> <<"c1">>, uncommitted_files |-> <<PathB>>] }

\* parseArgs: --no-thinking and --no-results
Options ==
    { [includeThinking |-> t, includeResults |-> r, maxResultLines |-> DEFAULT_MAX_RESULT_LINES] :
        t \in BOOLEAN, r \in BOOLEAN }

\* invocations, outcomes (also for an id nobody invoked, without id, and inside a
\* record that is not of type user) and records whose type and role disagree
CorrRecords ==
    {Entry("user", "user", <<ToolResult(id, e, TxtOut)>>) : id \in Ids, e \in BOOLEAN}
    \cup {Entry("assistant", "assistant", <<ToolUse("Bash", id, BashInput)>>) : id \in Ids}
    \cup { Entry("assistant", "assistant", <<ToolResult(1, TRUE, TxtOut)>>),
           Entry("user", "assistant", <<ToolUse("Bash", 1, BashInput)>>),
           Entry("assistant", "user", <<ToolUse("Bash", 1, BashInput)>>),
           Entry("assistant", "assistant", <<ToolUse("Bash", 0, BashInput)>>),
           Entry("user", "user", <<ToolResult(0, TRUE, TxtOut)>>),
           Entry("user", "user", <<ToolResult(1, TRUE, TxtOut), ToolResult(1, FALSE, TxtOk)>>) }

InitLog(records, gits) ==
    /\ TruncIdle
    /\ SelIdle
    /\ InstIdle
    /\ entries \in Logs(records)
    /\ git \in gits
    /\ handoff = <<>>
    /\ chat = <<>>
    /\ now = 0
    /\ earlier = <<>>
    /\ jsonl = [lines |-> <<>>, parsed |-> TRUE]
    /\ run = NoRun

\* export-continue.js main, lines 514-515: the handoff of the parsed log
ExportContinue ==
    /\ handoff = <<>>
    /\ chat = <<>>
    /\ handoff' = <<extractHandoff(entries, SessionId, git)>>
    /\ UNCHANGED <<entries, git, chat, now, earlier, jsonl, run>>
    /\ UNCHANGED <<truncVars, selVars, instVars>>

\* export-chat.js main, lines 1228-1229: the document of the parsed log
ExportChat(opts) ==
    /\ handoff = <<>>
    /\ chat = <<>>
    /\ chat' = <<convertToMarkdown(entries, SessionId, opts, git, now)>>
    /\ UNCHANGED <<entries, git, handoff, now, earlier, jsonl, run>>
    /\ UNCHANGED <<truncVars, selVars, instVars>>

NextLog ==
    \/ ExportContinue
    \/ \E opts \in Options : ExportChat(opts)

Spec == InitLog(CorrRecords, {CHOOSE g \in GitContexts : g.branch = "unknown"}) /\ [][NextLog]_vars

\* user records with text, with nothing but a system tag, with an image only, with
\* an outcome only and with text beside an outcome; assistant records with text, with
\* blank text and with an invocation only; records whose type and role disagree and a
\* record whose content is a string
TurnRecords ==
    { Entry("user", "user", <<TextBlock(TxtHi)>>),
      Entry("user", "user", <<TextBlock(TxtReminder)>>),
      Entry("user", "user", <<ImageBlock>>),
      Entry("user", "user", <<ToolResult(1, FALSE, TxtOut)>>),
      Entry("user", "user", <<TextBlock(TxtHi), ToolResult(1, FALSE, TxtOut)>>),
      Entry("assistant", "assistant", <<TextBlock(TxtOk)>>),
      Entry("assistant", "assistant", <<TextBlock(TxtBlank)>>),
      Entry("assistant", "assistant", <<ToolUse("Bash", 1, BashInput)>>),
      Entry("user", "assistant", <<TextBlock(TxtHi)>>),
      Entry("assistant", "user", <<TextBlock(TxtOk)>>),
      [Entry("user", "user", <<>>) EXCEPT !.isArray = FALSE] }

SpecTurn ==
    InitLog(TurnRecords, {CHOOSE g \in GitContexts : g.branch = "unknown"}) /\ [][NextLog]_vars

\* invocations of every tool the main loop of extractHandoff distinguishes, among
\* them a Write without content, an Edit without strings and a TodoWrite with an empty
\* list, the failed outcome of the Bash invocation and one record with three invocations
WriteInput(path, content) == [NoInput EXCEPT !.file_path = path, !.content = content]
EditInput(path) ==
    [NoInput EXCEPT !.file_path = path, !.has_old = TRUE, !.old_string = TxtHi,
                    !.has_new = TRUE, !.new_string = TxtOk]
GrepInput == [NoInput EXCEPT !.has_pattern = TRUE, !.pattern = TxtHi]
TodoInput(todos) == [NoInput EXCEPT !.has_todos = TRUE, !.todos = todos]

FieldRecords ==
    { Entry("assistant", "assistant", <<ToolUse("Write", 2, WriteInput(PathA, TxtOut))>>),
      Entry("assistant", "assistant", <<ToolUse("Write", 2, WriteInput(PathB, <<>>))>>),
      Entry("assistant", "assistant", <<ToolUse("Edit", 2, EditInput(PathA))>>),
      Entry("assistant", "assistant",
            <<ToolUse("Edit", 2, [NoInput EXCEPT !.file_path = PathB])>>),
      Entry("assistant", "assistant",
            <<ToolUse("Read", 2, [NoInput EXCEPT !.file_path = PathB])>>),
      Entry("assistant", "assistant", <<ToolUse("Bash", 1, BashInput)>>),
      Entry("assistant", "assistant", <<ToolUse("Grep", 2, GrepInput)>>),
      Entry("assistant", "assistant",
            <<ToolUse("TodoWrite", 2, TodoInput(<<[content |-> TxtHi, status |-> "completed"]>>))>>),
      Entry("assistant", "assistant", <<ToolUse("TodoWrite", 2, TodoInput(<<>>))>>),
      Entry("assistant", "assistant",
            <<ToolUse("Task", 2, [NoInput EXCEPT !.prompt = TxtHi])>>),
      Entry("user", "user", <<ToolResult(1, TRUE, TxtOut)>>),
      Entry("assistant", "assistant",
            <<ToolUse("Edit", 2, EditInput(PathA)), ToolUse("Bash", 1, BashInput),
              ToolUse("Grep", 2, GrepInput)>>) }

\* the handoff script alone, on a log of FieldRecords in every git context
SpecFields == InitLog(FieldRecords, GitContexts) /\ [][ExportContinue]_vars

\* Grep and Glob invocations: with the same pattern, with another pattern, with the same
\* pattern and another path, without pattern, two in one record, with an outcome; and an
\* invocation that is no search
SearchInput(pattern, path) ==
    [NoInput EXCEPT !.has_pattern = TRUE, !.pattern = pattern, !.path = path]

SearchRecords ==
    { Entry("assistant", "assistant", <<ToolUse("Grep", 1, SearchInput(TxtHi, <<>>))>>),
      Entry("assistant", "assistant", <<ToolUse("Grep", 2, SearchInput(TxtHi, PathB))>>),
      Entry("assistant", "assistant", <<ToolUse("Grep", 2, SearchInput(TxtUndefined, <<>>))>>),
      Entry("assistant", "assistant", <<ToolUse("Grep", 2, NoInput)>>),
      Entry("assistant", "assistant", <<ToolUse("Glob", 2, SearchInput(TxtHi, <<>>))>>),
      Entry("assistant", "assistant",
            <<ToolUse("Glob", 2, SearchInput(TxtOk, <<>>)),
              ToolUse("Grep", 2, SearchInput(TxtOk, <<>>))>>),
      Entry("assistant", "assistant", <<ToolUse("Bash", 2, BashInput)>>),
      Entry("user", "user", <<ToolResult(1, FALSE, TxtOut)>>) }

\* TodoWrite invocations: with one item, with two items (one of them of a status that
\* names no bucket), with an empty list, without a list, and inside a record that is
\* not an assistant record; and an invocation of another tool
Todo(content, status) == [content |-> content, status |-> status]

TodoRecords ==
    { Entry("assistant", "assistant",
            <<ToolUse("TodoWrite", 2, TodoInput(<<Todo(TxtHi, "completed")>>))>>),
      Entry("assistant", "assistant",
            <<ToolUse("TodoWrite", 2,
                      TodoInput(<<Todo(TxtOk, "in_progress"), Todo(TxtOut, "blocked")>>))>>),
      Entry("assistant", "assistant",
            <<ToolUse("TodoWrite", 2, TodoInput(<<Todo(TxtCmd, "pending")>>)),
              ToolUse("Bash", 2, BashInput)>>),
      Entry("assistant", "assistant", <<ToolUse("TodoWrite", 2, TodoInput(<<>>))>>),
      Entry("assistant", "assistant", <<ToolUse("TodoWrite", 2, NoInput)>>),
      Entry("user", "assistant",
            <<ToolUse("TodoWrite", 2, TodoInput(<<Todo(TxtBlank, "completed")>>))>>),
      Entry("assistant", "assistant", <<ToolUse("Bash", 2, BashInput)>>) }

SpecTodo ==
    InitLog(TodoRecords, {CHOOSE g \in GitContexts : g.branch = "unknown"})
    /\ [][ExportContinue]_vars

\* user records whose first text is preceded by a system reminder and blanks, as long
\* as the task budget, longer than it, or in the second block; and a record that is no
\* conversational user record
TASK_BUDGET == 500
TxtTagged == TxtReminder \o <<" ">> \o TxtOk \o <<" ">>
TxtFull == [n \in 1..TASK_BUDGET |-> "x"]
TxtLong == [n \in 1..(TASK_BUDGET + 1) |-> "y"]

TaskRecords ==
    { Entry("user", "user", <<TextBlock(TxtTagged)>>),
      Entry("user", "user", <<TextBlock(TxtFull)>>),
      Entry("user", "user", <<TextBlock(TxtLong)>>),
      Entry("user", "user", <<TextBlock(TxtReminder), TextBlock(TxtOut)>>),
      Entry("user", "user", <<TextBlock(TxtCmd), ToolResult(1, FALSE, TxtOut)>>) }

SpecTask ==
    InitLog(TaskRecords, {CHOOSE g \in GitContexts : g.branch = "unknown"})
    /\ [][ExportContinue]_vars

\* Two runs of a formatter on one log: the process of the first run ends and leaves
\* its output behind, time passes and the repository moves, and the script is run
\* again on the same records.
RunRecords ==
    { Entry("user", "user", <<TextBlock(TxtHi)>>),
      Entry("assistant", "assistant", <<ToolUse("Bash", 1, BashInput)>>) }

\* the script ends; what it computed is what the earlier run produced
ProcessExit ==
    /\ handoff # <<>> \/ chat # <<>>
    /\ earlier = <<>>
    /\ earlier' = <<[handoff |-> handoff, chat |-> chat]>>
    /\ handoff' = <<>>
    /\ chat' = <<>>
    /\ UNCHANGED <<entries, git, now, jsonl, run>>
    /\ UNCHANGED <<truncVars, selVars, instVars>>

\* line 1144, new Date(): the clock moves on while no script runs
ClockTick ==
    /\ handoff = <<>>
    /\ chat = <<>>
    /\ now < MaxTime
    /\ now' = now + 1
    /\ UNCHANGED <<entries, git, handoff, chat, earlier, jsonl, run>>
    /\ UNCHANGED <<truncVars, selVars, instVars>>

\* lines 138-157, the git commands of getGitContext: the repository at PROJECT_ROOT
\* changes (a commit, an edit, another directory) while no script runs
GitChange ==
    /\ handoff = <<>>
    /\ chat = <<>>
    /\ \E g \in GitContexts \ {git} : git' = g
    /\ UNCHANGED <<entries, handoff, chat, now, earlier, jsonl, run>>
    /\ UNCHANGED <<truncVars, selVars, instVars>>

NextRuns ==
    \/ ExportContinue
    \/ \E opts \in Options : ExportChat(opts)
    \/ ProcessExit
    \/ ClockTick
    \/ GitChange

SpecRuns ==
    InitLog(RunRecords, {CHOOSE g \in GitContexts : g.branch = "unknown"}) /\ [][NextRuns]_vars

\* Session files of up to MaxLog lines: two different records, a line cut short, a
\* blank line, and lines that hold a JSON literal (null, a number) instead of a record
TxtJson == <<"{", "}">>
ParseLines ==
    { Line0(TxtJson, TRUE, Entry("user", "user", <<TextBlock(TxtHi)>>)),
      Line0(TxtJson, TRUE, Entry("assistant", "assistant", <<TextBlock(TxtOk)>>)),
      Line0(<<"{">>, FALSE, JsonLiteral("null")),
      Line0(TxtBlank, FALSE, JsonLiteral("null")),
      Line0(<<"n", "u", "l", "l">>, TRUE, JsonLiteral("null")),
      Line0(<<"4", "2">>, TRUE, JsonLiteral("42")) }

InitParse ==
    /\ TruncIdle
    /\ SelIdle
    /\ InstIdle
    /\ entries = <<>>
    /\ git = [branch |-> "unknown", recent_commits |-> <<>>, uncommitted_files |-> <<>>]
    /\ handoff = <<>>
    /\ chat = <<>>
    /\ now = 0
    /\ earlier = <<>>
    /\ run = NoRun
    /\ jsonl \in {[lines |-> l, parsed |-> FALSE] :
                     l \in UNION {[1..n -> ParseLines] : n \in 0..MaxLog}}

\* main, lines 514 and 1228: const entries = parseJsonl(jsonlPath)
ParseJsonl ==
    /\ ~jsonl.parsed
    /\ entries' = parseJsonl(jsonl.lines)
    /\ jsonl' = [jsonl EXCEPT !.parsed = TRUE]
    /\ UNCHANGED <<git, handoff, chat, now, earlier, run>>
    /\ UNCHANGED <<truncVars, selVars, instVars>>

SpecParse == InitParse /\ [][ParseJsonl]_vars

\* assistant records with a thinking block beside a text, with nothing but a
\* thinking block, with a blank thinking block before an invocation and with an
\* invocation alone; the outcome of the invocation, failed or not; a user text
OptionRecords ==
    { Entry("assistant", "assistant", <<ThinkingBlock(TxtHi), TextBlock(TxtOk)>>),
      Entry("assistant", "assistant", <<ThinkingBlock(TxtCmd)>>),
      Entry("assistant", "assistant", <<ThinkingBlock(TxtBlank), ToolUse("Bash", 1, BashInput)>>),
      Entry("assistant", "assistant", <<ToolUse("Bash", 1, BashInput)>>),
      Entry("user", "user", <<ToolResult(1, FALSE, TxtOut)>>),
      Entry("user", "user", <<ToolResult(1, TRUE, TxtOut)>>),
      Entry("user", "user", <<TextBlock(TxtHi)>>) }

SpecOptions ==
    InitLog(OptionRecords, {CHOOSE g \in GitContexts : g.branch = "unknown"})
    /\ [][\E opts \in Options : ExportChat(opts)]_vars

\* One run of main of either script, step by step.  The run is given --list or not,
\* a session id or not; it finds session files or none, the session file exists or
\* not and can be read or not, the formatter meets a record it cannot process (a null
\* block, on which block.type throws) or not, and the output directory exists or not.
MainLines ==
    { Line0(TxtJson, TRUE, Entry("user", "user", <<TextBlock(TxtHi)>>)),
      Line0(TxtJson, TRUE, Entry("assistant", "assistant", <<ToolUse("Bash", 1, BashInput)>>)),
      Line0(<<"{">>, FALSE, JsonLiteral("null")) }

DefaultOptions ==
    [includeThinking |-> TRUE, includeResults |-> TRUE, maxResultLines |-> DEFAULT_MAX_RESULT_LINES]

InitMain ==
    /\ TruncIdle
    /\ SelIdle
    /\ InstIdle
    /\ entries = <<>>
    /\ git = [branch |-> "unknown", recent_commits |-> <<>>, uncommitted_files |-> <<>>]
    /\ handoff = <<>>
    /\ chat = <<>>
    /\ now = 0
    /\ earlier = <<>>
    /\ jsonl \in {[lines |-> l, parsed |-> FALSE] :
                     l \in UNION {[1..n -> MainLines] : n \in 0..MaxLines}}
    /\ run \in {[NoRun EXCEPT !.script = sc, !.list = li, !.arg = ar, !.found = fo,
                               !.exists = ex, !.readable = re, !.throws = th, !.dir = di,
                               !.pc = "start"] :
                    sc \in {"export-continue", "export-chat"}, li \in BOOLEAN,
                    ar \in BOOLEAN, fo \in BOOLEAN, ex \in BOOLEAN, re \in BOOLEAN,
                    th \in BOOLEAN, di \in BOOLEAN}

MainStep(from, to) ==
    /\ run.pc = from
    /\ run' = [run EXCEPT !.pc = to]

\* lines 475-477 and 1180-1185: --list prints the sessions and returns
MainList ==
    /\ run.list
    /\ MainStep("start", "returned")
    /\ UNCHANGED <<entries, git, handoff, chat, now, earlier, jsonl>>
    /\ UNCHANGED <<truncVars, selVars, instVars>>

\* lines 479-502 and 1187-1215: the session file is named by the argument, or it is
\* the first of the sorted session files; process.exit(1) when there is none
MainSelect ==
    /\ ~run.list
    /\ MainStep("start", IF run.arg \/ run.found THEN "selected" ELSE "exit1")
    /\ UNCHANGED <<entries, git, handoff, chat, now, earlier, jsonl>>
    /\ UNCHANGED <<truncVars, selVars, instVars>>

\* lines 504-507 and 1217-1220: process.exit(1) when the session file does not exist
MainExists ==
    /\ MainStep("selected", IF run.exists THEN "parse" ELSE "exit1")
    /\ UNCHANGED <<entries, git, handoff, chat, now, earlier, jsonl>>
    /\ UNCHANGED <<truncVars, selVars, instVars>>

\* lines 509-514 and 1222-1228: statSync and parseJsonl; either throws when the file
\* cannot be read
MainParse ==
    /\ run.pc = "parse"
    /\ IF run.readable
       THEN /\ entries' = parseJsonl(jsonl.lines)
            /\ jsonl' = [jsonl EXCEPT !.parsed = TRUE]
            /\ run' = [run EXCEPT !.pc = "format"]
       ELSE /\ run' = [run EXCEPT !.pc = "threw"]
            /\ UNCHANGED <<entries, jsonl>>
    /\ UNCHANGED <<git, handoff, chat, now, earlier>>
    /\ UNCHANGED <<truncVars, selVars, instVars>>

\* lines 515-516 and 1229: the formatter, in memory; an exception ends the run
MainFormat ==
    /\ run.pc = "format"
    /\ IF run.throws
       THEN /\ run' = [run EXCEPT !.pc = "threw"]
            /\ UNCHANGED <<handoff, chat>>
       ELSE /\ run' = [run EXCEPT !.pc = "mkdir"]
            /\ IF run.script = "export-continue"
               THEN /\ handoff' = <<extractHandoff(entries, SessionId, git)>>
                    /\ UNCHANGED chat
               ELSE /\ chat' = <<convertToMarkdown(entries, SessionId, DefaultOptions, git, now)>>
                    /\ UNCHANGED handoff
    /\ UNCHANGED <<entries, git, now, earlier, jsonl>>
    /\ UNCHANGED <<truncVars, selVars, instVars>>

\* lines 518-520 and 1232-1234: the output directory is made when it is missing
MainMkdir ==
    /\ run.pc = "mkdir"
    /\ run' = [run EXCEPT !.pc = "write", !.dir = TRUE]
    /\ UNCHANGED <<entries, git, handoff, chat, now, earlier, jsonl>>
    /\ UNCHANGED <<truncVars, selVars, instVars>>

\* a run that writes its output file as soon as the session file is parsed
MainWriteBeforeFormat ==
    /\ run.pc = "format"
    /\ run' = [run EXCEPT !.outFile = <<[script |-> run.script, body |-> <<>>]>>]
    /\ UNCHANGED <<entries, git, handoff, chat, now, earlier, jsonl>>
    /\ UNCHANGED <<truncVars, selVars, instVars>>

\* lines 522-527 and 1236-1241: fs.writeFileSync(outFile, json or markdown)
MainWrite ==
    /\ run.pc = "write"
    /\ run' = [run EXCEPT
                  !.pc = "returned",
                  !.outFile = <<[script |-> run.script,
                                 body |-> IF run.script = "export-continue"
                                          THEN handoff[1].out ELSE chat[1]]>>]
    /\ UNCHANGED <<entries, git, handoff, chat, now, earlier, jsonl>>
    /\ UNCHANGED <<truncVars, selVars, instVars>>

NextMain ==
    \/ MainList
    \/ MainSelect
    \/ MainExists
    \/ MainParse
    \/ MainFormat
    \/ MainMkdir
    \/ MainWrite

SpecMain == InitMain /\ [][NextMain]_vars

\* Write invocations of two lines, of one line to the same file, of a line and a
\* trailing newline, and without content; an Edit of a written file, and a failed
\* outcome that carries the id of the invocations
TxtTwoLines == <<"a", "\n", "b">>
TxtLineEnd == <<"a", "\n">>

WriteRecords ==
    { Entry("assistant", "assistant", <<ToolUse("Write", 2, WriteInput(PathA, TxtTwoLines))>>),
      Entry("assistant", "assistant", <<ToolUse("Write", 2, WriteInput(PathA, TxtOut))>>),
      Entry("assistant", "assistant", <<ToolUse("Write", 2, WriteInput(PathB, TxtLineEnd))>>),
      Entry("assistant", "assistant", <<ToolUse("Write", 2, WriteInput(PathB, <<>>))>>),
      Entry("assistant", "assistant", <<ToolUse("Edit", 1, EditInput(PathA))>>),
      Entry("user", "user", <<ToolResult(2, TRUE, TxtOut)>>) }

SpecWrite ==
    InitLog(WriteRecords, {CHOOSE g \in GitContexts : g.branch = "unknown"})
    /\ [][ExportContinue]_vars

SpecSearch ==
    InitLog(SearchRecords, {CHOOSE g \in GitContexts : g.branch = "unknown"})
    /\ [][ExportContinue]_vars

-----------------------------------------------------------------------------
(* Active session detection: getLastEntryTimestamp and the branch of main   *)
(* taken when no session id is given (both scripts carry the same code).    *)
(* A candidate file is its lines in file order, each ended by a newline,    *)
(* its mtime, and whether statSync and openSync succeed on it.  A line is   *)
(* its length in bytes, whether JSON.parse accepts it, and the instant its  *)
(* timestamp names (0: the record has no timestamp).  Instants and mtimes   *)
(* are milliseconds, counted from 1.                                        *)

Line(size, ok, ts) == [size |-> size, ok |-> ok, ts |-> ts]

File(lines, mtime, readable) == [lines |-> lines, mtime |-> mtime, readable |-> readable]

RECURSIVE TailBytes(_, _)
\* the bytes from the start of line n to the end of the file
TailBytes(lines, n) ==
    IF n > Len(lines) THEN 0 ELSE lines[n].size + 1 + TailBytes(lines, n + 1)

\* stat.size
FileSize(f) == TailBytes(f.lines, 1)

\* line 455: Math.min(stat.size, 16384)
ReadSize(f) == Min(FileSize(f), 16384)

\* line n lies wholly inside the trailing window that readSync fills; the line cut by
\* the start of the window is a fragment that JSON.parse rejects
InWindow(f, n) == TailBytes(f.lines, n) <= ReadSize(f)

RECURSIVE ScanBack(_, _)
\* lines 460-465: the backward scan for a line that parses and carries a timestamp;
\* 0 when the loop ends without one
ScanBack(f, i) ==
    IF i = 0 \/ ~InWindow(f, i) THEN 0
    ELSE IF f.lines[i].ok /\ f.lines[i].ts # 0 THEN f.lines[i].ts
    ELSE ScanBack(f, i - 1)

\* a scan that reads the whole file instead of its trailing window
getLastEntryTimestampWholeFile(f) ==
    LET stamped == {n \in 1..Len(f.lines) : f.lines[n].ok /\ f.lines[n].ts # 0}
    IN IF ~f.readable THEN 0
       ELSE IF stamped = {} THEN f.mtime
       ELSE f.lines[CHOOSE n \in stamped : \A m \in stamped : m <= n].ts

\* getLastEntryTimestamp(filePath)
getLastEntryTimestamp(f) ==
    IF ~f.readable THEN 0
    ELSE IF ScanBack(f, Len(f.lines)) # 0 THEN ScanBack(f, Len(f.lines))
    ELSE f.mtime

RECURSIVE InsertDesc(_, _, _)
\* index x put into the sorted index list behind every index whose key is not smaller
InsertDesc(keys, sorted, x) ==
    IF sorted = <<>> THEN <<x>>
    ELSE IF keys[Head(sorted)] >= keys[x] THEN <<Head(sorted)>> \o InsertDesc(keys, Tail(sorted), x)
    ELSE <<x>> \o sorted

RECURSIVE SortDesc(_, _)
\* line 497: .sort((a, b) => b.lastEntry - a.lastEntry), a stable sort, on the indices
\* 1..n of the directory listing
SortDesc(keys, n) ==
    IF n = 0 THEN <<>> ELSE InsertDesc(keys, SortDesc(keys, n - 1), n)

\* the files a session directory can hold: an empty file, a file that cannot be read,
\* and, for every instant t, files whose last timestamped record carries t: as the only
\* record, followed by a record without timestamp and a line cut off mid-write,
\* as a record longer than the window, and followed by a record longer than the window
SelLines ==
    {<<>>}
    \cup {<<Line(120, TRUE, t)>> : t \in 1..MaxTime}
    \cup {<<Line(120, TRUE, t), Line(120, TRUE, 0), Line(40, FALSE, 0)>> : t \in 1..MaxTime}
    \cup {<<Line(20000, TRUE, t)>> : t \in 1..MaxTime}
    \cup {<<Line(120, TRUE, t), Line(20000, TRUE, 0)>> : t \in 1..MaxTime}

SelFiles ==
    {File(l, m, TRUE) : l \in SelLines, m \in 1..MaxTime}
    \cup {File(<<>>, m, FALSE) : m \in 1..MaxTime}

InitSelect ==
    /\ LogIdle
    /\ TruncIdle
    /\ InstIdle
    /\ files \in UNION {[1..n -> SelFiles] : n \in 0..MaxFiles}
    /\ lastEntry = <<>>
    /\ chosen = 0

\* lines 493-496: the map step for the next file of the directory listing
MapLastEntry ==
    /\ chosen = 0
    /\ Len(lastEntry) < Len(files)
    /\ lastEntry' = Append(lastEntry, getLastEntryTimestamp(files[Len(lastEntry) + 1]))
    /\ UNCHANGED <<files, chosen>>
    /\ UNCHANGED <<logVars, truncVars, instVars>>

\* lines 497-501: sort, then files[0]
SelectNewest ==
    /\ chosen = 0
    /\ Len(files) > 0
    /\ Len(lastEntry) = Len(files)
    /\ chosen' = SortDesc(lastEntry, Len(files))[1]
    /\ UNCHANGED <<files, lastEntry>>
    /\ UNCHANGED <<logVars, truncVars, instVars>>

\* line 499: "No session files found.", process.exit(1)
NoSessionFiles ==
    /\ chosen = 0
    /\ Len(files) = 0
    /\ chosen' = -1
    /\ UNCHANGED <<files, lastEntry>>
    /\ UNCHANGED <<logVars, truncVars, instVars>>

NextSelect == MapLastEntry \/ SelectNewest \/ NoSessionFiles

SpecSelect == InitSelect /\ [][NextSelect]_vars

\* the lines a candidate file can hold: short, nearly as long as the window, or longer
\* than the window; cut off mid-write, without timestamp, or with a timestamp
StampLineKinds ==
    {Line(size, FALSE, 0) : size \in {120, 16000, 20000}}
    \cup {Line(size, TRUE, t) : size \in {120, 16000, 20000}, t \in 0..MaxTime}

StampFiles ==
    {File(l, m, TRUE) : l \in UNION {[1..n -> StampLineKinds] : n \in 0..MaxLines},
                        m \in 1..MaxTime}
    \cup {File(<<>>, m, FALSE) : m \in 1..MaxTime}

\* a session directory that is empty or holds one candidate
InitStamp ==
    /\ LogIdle
    /\ TruncIdle
    /\ InstIdle
    /\ files \in {<<>>} \cup {<<f>> : f \in StampFiles}
    /\ lastEntry = <<>>
    /\ chosen = 0

SpecStamp == InitStamp /\ [][NextSelect]_vars

-----------------------------------------------------------------------------
(* Vocabulary of the properties about invocations and outcomes.  A position *)
(* <<i, k>> names block k of record i of the log.                           *)

Positions(es) ==
    UNION {{<<i, k>> : k \in 1..(IF es[i].isArray THEN Len(es[i].content) ELSE 0)} :
              i \in 1..Len(es)}

BlockAt(es, p) == es[p[1]].content[p[2]]

\* p comes before q in file order
Before(p, q) == p[1] < q[1] \/ (p[1] = q[1] /\ p[2] < q[2])

\* every tool_use block of the log
ToolUsePositions(es) == {p \in Positions(es) : BlockAt(es, p).type = "tool_use"}

\* every tool_result block of the log, whatever record holds it
ToolResultPositions(es) == {p \in Positions(es) : BlockAt(es, p).type = "tool_result"}

\* the outcomes: tool_result blocks that carry an id, inside a record of type user
OutcomePositions(es) ==
    {p \in ToolResultPositions(es) : es[p[1]].type = "user" /\ BlockAt(es, p).tool_use_id # 0}

OutcomesOf(es, id) == {p \in OutcomePositions(es) : BlockAt(es, p).tool_use_id = id}

\* the last outcome carrying id, in file order
LastOutcomeOf(es, id) ==
    CHOOSE p \in OutcomesOf(es, id) : \A q \in OutcomesOf(es, id) : q = p \/ Before(q, p)

\* no tool_result block anywhere in the log carries the invocation's id
Pending(es, id) ==
    id = 0 \/ \A p \in ToolResultPositions(es) : BlockAt(es, p).tool_use_id # id

\* no two tool_use blocks of the log carry the same id
UniqueInvocationIds(es) ==
    \A p, q \in ToolUsePositions(es) :
        p # q => BlockAt(es, p).id # BlockAt(es, q).id

\* the invocations the compact projection handled, with the outcome each resolved to
CompactInvocations == handoff[1].invs

\* the invocations the narrative projection rendered, with the outcome each resolved to
NarrativeInvocations == SelectSeq(chat[1].parts, LAMBDA part : part.kind = "tool")

\* every resolved outcome is a tool_result block whose tool_use_id is the invocation's id
ResolvedByMatchingId(invs) ==
    \A n \in 1..Len(invs) :
        invs[n].result # <<>> =>
            /\ invs[n].result[1].src \in ToolResultPositions(entries)
            /\ BlockAt(entries, invs[n].result[1].src).tool_use_id = invs[n].id

\* no outcome block is the resolved outcome of two invocations
NoOutcomeUsedTwice(invs) ==
    \A n, m \in 1..Len(invs) :
        (n # m /\ invs[n].result # <<>> /\ invs[m].result # <<>>) =>
            invs[n].result[1].src # invs[m].result[1].src

(* C1 as stated: in both projections, for every log, each outcome is         *)
(* attached to invocations with its id only, and to at most one invocation. *)
C1_OutcomeAttachedAtMostOnce ==
    /\ handoff # <<>> =>
          ResolvedByMatchingId(CompactInvocations) /\ NoOutcomeUsedTwice(CompactInvocations)
    /\ chat # <<>> =>
          ResolvedByMatchingId(NarrativeInvocations) /\ NoOutcomeUsedTwice(NarrativeInvocations)

(* C1 amended: in both projections an outcome is attached only to           *)
(* invocations whose id equals its tool_use_id, and every outcome that is   *)
(* not the last one for its id, or whose id no invocation carries, is       *)
(* dropped; it is attached to at most one invocation when the invocation    *)
(* ids of the log are unique (every invocation that repeats an id resolves  *)
(* to the same outcome).                                                    *)
C1_OutcomeAttachedByIdOnly ==
    /\ handoff # <<>> =>
          /\ ResolvedByMatchingId(CompactInvocations)
          /\ UniqueInvocationIds(entries) => NoOutcomeUsedTwice(CompactInvocations)
    /\ chat # <<>> =>
          /\ ResolvedByMatchingId(NarrativeInvocations)
          /\ UniqueInvocationIds(entries) => NoOutcomeUsedTwice(NarrativeInvocations)

\* the handoff of a log with unique invocation ids in which one outcome is attached
\* to an invocation and another outcome is attached to none
C1_Witness ==
    /\ handoff # <<>>
    /\ UniqueInvocationIds(entries)
    /\ \E n \in 1..Len(CompactInvocations) : CompactInvocations[n].result # <<>>
    /\ \E p \in OutcomePositions(entries) :
          \A n \in 1..Len(CompactInvocations) :
              CompactInvocations[n].result = <<>> \/ CompactInvocations[n].result[1].src # p

\* the outcome an invocation must resolve to: the last outcome carrying its id
ResolvesToLast(invs) ==
    \A n \in 1..Len(invs) :
        IF invs[n].id = 0 \/ OutcomesOf(entries, invs[n].id) = {}
        THEN invs[n].result = <<>>
        ELSE LET p == LastOutcomeOf(entries, invs[n].id)
             IN /\ invs[n].result # <<>>
                /\ invs[n].result[1].src = p
                /\ invs[n].result[1].content = BlockAt(entries, p).content
                /\ invs[n].result[1].is_error = BlockAt(entries, p).is_error

(* C2: an invocation resolves to the last outcome in file order that        *)
(* carries its id (earlier outcomes for the id are overwritten), wherever   *)
(* that outcome sits relative to the invocation: before it, after it, or in *)
(* between other records; it is unresolved only when no outcome carries its *)
(* id.                                                                      *)
C2_LastOutcomeWins ==
    /\ handoff # <<>> =>
          /\ ResolvesToLast(CompactInvocations)
          /\ \A id \in DOMAIN buildToolResultMap(entries) :
                buildToolResultMap(entries)[id].src = LastOutcomeOf(entries, id)
    /\ chat # <<>> => ResolvesToLast(NarrativeInvocations)

\* an invocation sits between two outcomes for its id and resolved to the later one
C2_Witness ==
    /\ handoff # <<>>
    /\ \E n \in 1..Len(CompactInvocations) :
          LET inv == CompactInvocations[n]
          IN /\ inv.result # <<>>
             /\ inv.rec < inv.result[1].src[1]
             /\ \E q \in OutcomesOf(entries, inv.id) : q[1] < inv.rec

\* tool_use blocks the compact projection handles: inside an assistant record
CompactToolUses ==
    {p \in ToolUsePositions(entries) :
        entries[p[1]].type = "assistant" /\ entries[p[1]].role = "assistant"}

\* tool_use blocks collectStats counts: inside a record of type assistant
StatsToolUses ==
    {p \in ToolUsePositions(entries) : entries[p[1]].type = "assistant"}

\* the invocation at p has an outcome whose error flag is set
Failed(p) ==
    /\ OutcomesOf(entries, BlockAt(entries, p).id) # {}
    /\ BlockAt(entries, LastOutcomeOf(entries, BlockAt(entries, p).id)).is_error

(* C3: an invocation whose id no tool_result carries is pending, not an      *)
(* error: it is counted in the tool-call total like any other invocation,   *)
(* and only invocations with an outcome whose error flag is set make an     *)
(* errors entry, add to error_count / toolErrors or get an [ERROR] header.  *)
C3_PendingIsNotAnError ==
    /\ handoff # <<>> =>
          LET out == handoff[1].out
              errors == IF "errors" \in DOMAIN out THEN out.errors ELSE <<>>
          IN /\ out.session.tool_calls = Cardinality(CompactToolUses)
             /\ out.session.error_count = Cardinality({p \in CompactToolUses : Failed(p)})
             /\ Len(errors) = out.session.error_count
             /\ \A n \in 1..Len(CompactInvocations) :
                   Pending(entries, CompactInvocations[n].id) =>
                       /\ CompactInvocations[n].result = <<>>
                       /\ ~CompactInvocations[n].isError
    /\ chat # <<>> =>
          /\ chat[1].stats.toolCalls = Cardinality(StatsToolUses)
          /\ chat[1].stats.toolErrors = Cardinality({p \in StatsToolUses : Failed(p)})
          /\ \A n \in 1..Len(NarrativeInvocations) :
                Pending(entries, NarrativeInvocations[n].id) =>
                    /\ NarrativeInvocations[n].result = <<>>
                    /\ ~NarrativeInvocations[n].error

\* the handoff of a log whose only invocation is pending: counted, and no errors field
C3_Witness ==
    /\ handoff # <<>>
    /\ Len(CompactInvocations) = 1
    /\ Pending(entries, CompactInvocations[1].id)
    /\ ToolResultPositions(entries) # {}
    /\ handoff[1].out.session.tool_calls = 1
    /\ handoff[1].out.session.error_count = 0
    /\ "errors" \notin DOMAIN handoff[1].out

-----------------------------------------------------------------------------
(* Vocabulary of the properties about turns.                                *)

\* a record the digest loop treats as written by the user
UserRecord(e) == e.type = "user" /\ e.role = "user" /\ e.isArray

\* a record that contains a tool_result block
OutcomeContainer(e) ==
    e.isArray /\ \E k \in 1..Len(e.content) : e.content[k].type = "tool_result"

\* a record with a text block of which something is left once system tags are stripped
RenderableText(e) ==
    e.isArray /\ \E k \in 1..Len(e.content) :
        e.content[k].type = "text" /\ stripSystemTags(e.content[k].text) # <<>>

\* a genuine user conversational record
Genuine(e) == UserRecord(e) /\ ~OutcomeContainer(e) /\ RenderableText(e)

\* a user record that is no outcome container, whether or not it has renderable text
Opener(e) == UserRecord(e) /\ ~OutcomeContainer(e)

\* an assistant record with a text block that is not blank
AssistantText(e) ==
    /\ e.type = "assistant" /\ e.role = "assistant" /\ e.isArray
    /\ \E k \in 1..Len(e.content) : e.content[k].type = "text" /\ Trim(e.content[k].text) # <<>>

\* the digest of the handoff and, per segment, the record it was built from
Digest == handoff[1].out.conversation_digest
DigestRecs == handoff[1].recs

SegmentsOf(role) == {n \in 1..Len(Digest) : Digest[n].role = role}

\* the turn counter of the digest loop once the first i records went through it
TurnAfter(i) == DigestLoop(SubSeq(entries, 1, i), 1, EmptyDigest).turnNum

(* C4: the digest has one user segment per genuine user conversational      *)
(* record (a user record with renderable text and no tool_result block),    *)
(* built from exactly those records, and a record that contains a           *)
(* tool_result block leaves the turn counter as it found it.                *)
C4_UserSegmentsAreGenuineRecords ==
    handoff # <<>> =>
        /\ Cardinality(SegmentsOf("user"))
              = Cardinality({i \in 1..Len(entries) : Genuine(entries[i])})
        /\ {DigestRecs[n] : n \in SegmentsOf("user")}
              = {i \in 1..Len(entries) : Genuine(entries[i])}
        /\ \A i \in 1..Len(entries) :
              OutcomeContainer(entries[i]) =>
                  /\ TurnAfter(i) = TurnAfter(i - 1)
                  /\ \A n \in 1..Len(Digest) : DigestRecs[n] # i
        /\ handoff[1].turnNum = TurnAfter(Len(entries))
        /\ handoff[1].turnNum = Cardinality({i \in 1..Len(entries) : Opener(entries[i])})

\* the handoff of a log with a genuine user record, an outcome-only record and a
\* record with text beside an outcome: one user segment, one turn
C4_Witness ==
    /\ handoff # <<>>
    /\ Len(entries) = 3
    /\ \E i \in 1..3 : Genuine(entries[i])
    /\ \E i \in 1..3 : OutcomeContainer(entries[i]) /\ ~RenderableText(entries[i])
    /\ \E i \in 1..3 : OutcomeContainer(entries[i]) /\ RenderableText(entries[i])
    /\ Cardinality(SegmentsOf("user")) = 1
    /\ handoff[1].turnNum = 1

\* the user segments before segment n of the digest
UserSegmentsBefore(n) == {m \in SegmentsOf("user") : m < n}

-----------------------------------------------------------------------------
(* Vocabulary of the properties about the fields of the handoff.            *)

Out == handoff[1].out

\* the collections of the main loop the fields are assembled from
Acc == MainLoop(entries, 1, EmptyAcc, buildToolResultMap(entries))

Changes == Out.changes

(* C8: an optional field of the handoff (errors, actions, searches, summary  *)
(* and edits of a change, uncommitted_changes of git_context) is absent or  *)
(* non-empty.                                                               *)
C8_OptionalFieldsNonEmpty ==
    handoff # <<>> =>
        /\ "errors" \in DOMAIN Out => Len(Out.errors) > 0
        /\ "actions" \in DOMAIN Out => Len(Out.actions) > 0
        /\ "searches" \in DOMAIN Out =>
              /\ DOMAIN Out.searches = {"count", "unique_patterns"}
              /\ Len(Out.searches.unique_patterns) > 0
              /\ Out.searches.count > 0
        /\ \A n \in 1..Len(Changes) :
              /\ "summary" \in DOMAIN Changes[n] => Len(Changes[n].summary) > 0
              /\ "edits" \in DOMAIN Changes[n] => Len(Changes[n].edits) > 0
        /\ "uncommitted_changes" \in DOMAIN Out.git_context =>
              Len(Out.git_context.uncommitted_changes) > 0

\* a handoff in which errors, actions, searches, a summary, an edits list and
\* uncommitted_changes are all present
C8_Witness ==
    /\ handoff # <<>>
    /\ {"errors", "actions", "searches"} \subseteq DOMAIN Out
    /\ \E n \in 1..Len(Changes) : "summary" \in DOMAIN Changes[n]
    /\ \E n \in 1..Len(Changes) : "edits" \in DOMAIN Changes[n]
    /\ "uncommitted_changes" \in DOMAIN Out.git_context

(* C9 as stated: every field whose underlying collection is empty is        *)
(* omitted, changes, files_read, the progress buckets, conversation_digest  *)
(* and git_context.recent_commits included.                                 *)
C9_EveryEmptyCollectionOmitted ==
    handoff # <<>> =>
      LET acc == Acc
          progress == Progress(acc)
          digest == DigestLoop(entries, 1, EmptyDigest).digest
      IN
        /\ acc.fileChanges = <<>> => "changes" \notin DOMAIN Out
        /\ acc.filesRead = <<>> => "files_read" \notin DOMAIN Out
        /\ progress.completed = <<>> => "completed" \notin DOMAIN Out.progress
        /\ progress.in_progress = <<>> => "in_progress" \notin DOMAIN Out.progress
        /\ progress.pending = <<>> => "pending" \notin DOMAIN Out.progress
        /\ DigestLoop(entries, 1, EmptyDigest).digest = <<>>
              => "conversation_digest" \notin DOMAIN Out
        /\ git.recent_commits = <<>> => "recent_commits" \notin DOMAIN Out.git_context
        /\ acc.errors = <<>> => "errors" \notin DOMAIN Out
        /\ acc.actions = <<>> => "actions" \notin DOMAIN Out
        /\ acc.searches = <<>> => "searches" \notin DOMAIN Out
        /\ git.uncommitted_files = <<>> => "uncommitted_changes" \notin DOMAIN Out.git_context

(* C9 amended: exactly the optional fields are omitted when the collection  *)
(* they are assembled from is empty (errors, actions, searches, the summary *)
(* and the edits of a change, uncommitted_changes); changes, files_read,    *)
(* the three progress buckets, conversation_digest and recent_commits are   *)
(* always emitted, as an empty array when their collection is empty.        *)
C9_OnlyOptionalFieldsOmitted ==
    handoff # <<>> =>
      LET acc == Acc
          progress == Progress(acc)
          digest == DigestLoop(entries, 1, EmptyDigest).digest
      IN
        /\ "errors" \in DOMAIN Out <=> acc.errors # <<>>
        /\ "actions" \in DOMAIN Out <=> acc.actions # <<>>
        /\ "searches" \in DOMAIN Out <=> acc.searches # <<>>
        /\ "uncommitted_changes" \in DOMAIN Out.git_context <=> git.uncommitted_files # <<>>
        /\ Len(Changes) = Len(acc.fileChanges)
        /\ \A n \in 1..Len(Changes) :
              /\ "summary" \in DOMAIN Changes[n] <=> acc.fileChanges[n].summary # <<>>
              /\ "edits" \in DOMAIN Changes[n] <=> acc.fileChanges[n].edits # <<>>
        /\ {"changes", "files_read", "progress", "conversation_digest", "git_context"}
              \subseteq DOMAIN Out
        /\ Out.files_read = acc.filesRead
        /\ DOMAIN Out.progress = {"completed", "in_progress", "pending"}
        /\ Out.progress = progress
        /\ Out.conversation_digest = digest
        /\ "recent_commits" \in DOMAIN Out.git_context
        /\ Out.git_context.recent_commits = git.recent_commits

\* a handoff with invocations but without errors, actions and searches, whose changes
\* hold an Edit without edits, and whose files_read, progress buckets, digest and
\* recent_commits are emitted empty
C9_Witness ==
    /\ handoff # <<>>
    /\ Out.session.tool_calls > 0
    /\ {"errors", "actions", "searches"} \cap DOMAIN Out = {}
    /\ "uncommitted_changes" \notin DOMAIN Out.git_context
    /\ \E n \in 1..Len(Changes) : DOMAIN Changes[n] = {"file", "action"}
    /\ Out.files_read = <<>>
    /\ Out.progress = [completed |-> <<>>, in_progress |-> <<>>, pending |-> <<>>]
    /\ Out.conversation_digest = <<>>
    /\ Out.git_context.recent_commits = <<>>

-----------------------------------------------------------------------------
(* C6: truncate is idempotent: truncating the result of truncate(s, max)   *)
(* again with the same max returns that result unchanged.                  *)
C6_TruncateIdempotent ==
    (tFn = "truncate" /\ tN = 2) => tOut = tIn

\* truncate cut a text on its first call and was then called on the cut text
C6_Witness ==
    /\ tFn = "truncate"
    /\ tN = 2
    /\ Len(tIn) > tMax
    /\ tIn = Substring0(tIn, tMax) \o Ellipsis

(* C7 as stated: truncateChars and truncateLines are idempotent, the second *)
(* call with the same budget returns the first call's result unchanged.    *)
C7_NarrativeTruncationIdempotent ==
    (tFn \in {"truncateChars", "truncateLines"} /\ tN = 2) => tOut = tIn

(* C7 amended: truncateChars and truncateLines return a text within the     *)
(* budget unchanged; a text over the budget (an already truncated text     *)
(* always is) keeps its first n characters / lines and gets a marker that   *)
(* states the counts of the text the call was given, so a second call keeps *)
(* the kept part and rewrites the marker.                                   *)
C7_NarrativeTruncationKeepsPrefix ==
    /\ (tFn = "truncateChars" /\ tN >= 1) =>
          /\ Len(tIn) <= tMax => tOut = tIn
          /\ Len(tIn) > tMax =>
                tOut = Substring0(tIn, tMax) \o CharsMarker(tMax, Len(tIn))
          /\ Substring0(tOut, tMax) = Substring0(tIn, tMax)
    /\ (tFn = "truncateLines" /\ tN >= 1) =>
          LET lines == SplitLines(tIn)
          IN /\ Len(lines) <= tMax => tOut = tIn
             /\ Len(lines) > tMax =>
                   /\ SubSeq(SplitLines(tOut), 1, tMax) = SubSeq(lines, 1, tMax)
                   /\ Len(SplitLines(tOut)) = tMax + 2
                   /\ SplitLines(tOut)[tMax + 2] =
                         Tail(LinesMarker(Len(lines) - tMax, Len(lines)))

\* a narrative helper was called on a text it had already truncated, and the
\* second result differs from the first
C7_Witness ==
    /\ tFn \in {"truncateChars", "truncateLines"}
    /\ tN = 2
    /\ tOut # tIn
    /\ Substring0(tOut, tMax) = Substring0(tIn, tMax)

-----------------------------------------------------------------------------
(* Vocabulary of the property about the selected session.                   *)

\* the trailing record of candidate a parses and carries a timestamp
TrailingStamped(a) ==
    /\ files[a].readable
    /\ files[a].lines # <<>>
    /\ files[a].lines[Len(files[a].lines)].ok
    /\ files[a].lines[Len(files[a].lines)].ts # 0

TrailingStamp(a) == files[a].lines[Len(files[a].lines)].ts

(* C10 as stated: once main has selected, no candidate A whose trailing      *)
(* record carries T1 is selected when a candidate B's trailing record       *)
(* carries T2 > T1, whatever the modification times of the two files.       *)
C10_NewestTrailingRecordSelected ==
    chosen > 0 =>
        \A a, b \in 1..Len(files) :
            (TrailingStamped(a) /\ TrailingStamped(b) /\ TrailingStamp(b) > TrailingStamp(a))
                => chosen # a

\* the lines of candidate f that lie wholly in its last 16384 bytes, parse and carry
\* a timestamp
Qualifying(f) ==
    {n \in 1..Len(f.lines) :
        /\ TailBytes(f.lines, n) <= 16384
        /\ f.lines[n].ok
        /\ f.lines[n].ts # 0}

(* C11: for a candidate that can be read, getLastEntryTimestamp returns the  *)
(* timestamp of the last line that lies in the trailing 16384 bytes, parses *)
(* and carries a timestamp, whatever unparseable or timestamp-less lines    *)
(* follow it and whatever lies before the window; when no line of the       *)
(* window qualifies it returns the modification time.  (A candidate that    *)
(* cannot be read yields 0.)                                                *)
C11_LastStampInWindowOrMtime ==
    \A i \in 1..Len(lastEntry) :
        LET f == files[i]
        IN IF ~f.readable THEN lastEntry[i] = 0
           ELSE IF Qualifying(f) = {} THEN lastEntry[i] = f.mtime
           ELSE lastEntry[i]
                   = f.lines[CHOOSE n \in Qualifying(f) : \A m \in Qualifying(f) : m <= n].ts

\* a candidate whose stamped line is followed by a line that does not qualify, and
\* whose timestamp differs from the mtime, after the scan
C11_Witness ==
    /\ Len(lastEntry) = 1
    /\ Len(files[1].lines) = 2
    /\ Qualifying(files[1]) = {1}
    /\ files[1].mtime # files[1].lines[1].ts
    /\ lastEntry[1] = files[1].lines[1].ts

-----------------------------------------------------------------------------
(* Vocabulary of the property about searches.                               *)

\* the Grep and Glob invocations the compact projection handles
SearchPositions == {p \in CompactToolUses : BlockAt(entries, p).name \in {"Grep", "Glob"}}

\* the (kind, pattern) pair of the search at p; a missing pattern is no pattern at all
SearchPair(p) ==
    LET block == BlockAt(entries, p)
    IN <<block.name, block.input.has_pattern, block.input.pattern>>

\* the first search of the log with the pair of the search at p
FirstWithPair(p) ==
    CHOOSE q \in SearchPositions :
        /\ SearchPair(q) = SearchPair(p)
        /\ \A r \in SearchPositions : SearchPair(r) = SearchPair(p) => r = q \/ Before(q, r)

\* the searches entry made from the search at p
SearchEntryAt(p) ==
    LET block == BlockAt(entries, p)
    IN SearchEntry(IF block.name = "Grep" THEN "grep" ELSE "glob", block.input,
                   MapGet(buildToolResultMap(entries), block.id))

(* C12 as stated: searches.count is the number of Grep and Glob             *)
(* invocations, and unique_patterns holds exactly one entry per distinct    *)
(* (kind, pattern) pair, the entry of the first invocation with that pair,  *)
(* in log order; without searches the field is absent.                      *)
C12_OneEntryPerSearchPair ==
    handoff # <<>> =>
        IF SearchPositions = {} THEN "searches" \notin DOMAIN Out
        ELSE /\ "searches" \in DOMAIN Out
             /\ Out.searches.count = Cardinality(SearchPositions)
             /\ LET unique == Out.searches.unique_patterns
                    firsts == {FirstWithPair(p) : p \in SearchPositions}
                IN /\ Len(unique) = Cardinality(firsts)
                   /\ {unique[n] : n \in 1..Len(unique)} = {SearchEntryAt(q) : q \in firsts}

-----------------------------------------------------------------------------
(* Vocabulary of the property about the progress view.                      *)

\* the TodoWrite invocations the compact projection handles
TodoPositions == {p \in CompactToolUses : BlockAt(entries, p).name = "TodoWrite"}

\* those of them that carry a todos list
TodoListPositions == {p \in TodoPositions : BlockAt(entries, p).input.has_todos}

\* the last position of a non-empty set of positions, in file order
LastPosition(S) == CHOOSE p \in S : \A q \in S : q = p \/ Before(q, p)

\* the contents of the items of todos whose status is in, or is not in, a set of names
ItemsWithStatus(todos, names, inside) ==
    LET picked == SelectSeq(todos, LAMBDA t : (t.status \in names) = inside)
    IN [n \in 1..Len(picked) |-> picked[n].content]

\* the progress view of one snapshot: every item in exactly one bucket, in order
ViewOf(todos) ==
    [completed |-> ItemsWithStatus(todos, {"completed"}, TRUE),
     in_progress |-> ItemsWithStatus(todos, {"in_progress"}, TRUE),
     pending |-> ItemsWithStatus(todos, {"completed", "in_progress"}, FALSE)]

(* C13 as stated: the progress view is that of the most recent TodoWrite    *)
(* invocation of the log, and empty when the log has none.                  *)
C13_ProgressFromLatestTodoWrite ==
    handoff # <<>> =>
        Out.progress =
            IF TodoPositions = {} THEN ViewOf(<<>>)
            ELSE ViewOf(BlockAt(entries, LastPosition(TodoPositions)).input.todos)

(* C13 amended: the progress view is that of the most recent TodoWrite      *)
(* invocation that carries a todos list (a TodoWrite without a list leaves  *)
(* the earlier snapshot in place): items of earlier snapshots appear only   *)
(* if that snapshot repeats them, and every item of it lands in exactly one *)
(* bucket: completed, in_progress, or pending for any other status.         *)
C13_ProgressFromLatestTodoList ==
    handoff # <<>> =>
        LET todos == IF TodoListPositions = {} THEN <<>>
                     ELSE BlockAt(entries, LastPosition(TodoListPositions)).input.todos
            view == Out.progress
        IN /\ view = ViewOf(todos)
           /\ Len(view.completed) + Len(view.in_progress) + Len(view.pending) = Len(todos)
           /\ \A b \in {"completed", "in_progress", "pending"} :
                 \A n \in 1..Len(view[b]) : \E m \in 1..Len(todos) : todos[m].content = view[b][n]

\* the handoff of a log with two snapshots of different items: the view holds the two
\* items of the later one, the item of unknown status in the pending bucket
C13_Witness ==
    /\ handoff # <<>>
    /\ Cardinality(TodoListPositions) = 2
    /\ Out.progress = [completed |-> <<>>, in_progress |-> <<TxtOk>>, pending |-> <<TxtOut>>]
    /\ \E p \in TodoListPositions :
          BlockAt(entries, p).input.todos = <<Todo(TxtHi, "completed")>>

-----------------------------------------------------------------------------
(* Vocabulary of the property about the task.                               *)

\* the first genuine user conversational record of the log, and the text of its
\* first block that has renderable text
GenuineRecords == {i \in 1..Len(entries) : Genuine(entries[i])}
FirstGenuine == CHOOSE i \in GenuineRecords : \A j \in GenuineRecords : i <= j
FirstText ==
    LET content == entries[FirstGenuine].content
        Renderable(k) == content[k].type = "text" /\ stripSystemTags(content[k].text) # <<>>
        first == CHOOSE k \in 1..Len(content) :
                     Renderable(k) /\ \A j \in 1..(k - 1) : ~Renderable(j)
    IN content[first].text

-----------------------------------------------------------------------------
(* C15: two runs of extractHandoff, and two runs of convertToMarkdown with  *)
(* the same options, on the same records and session id produce the same   *)
(* output.                                                                  *)
C15_TwoRunsSameOutput ==
    earlier # <<>> =>
        /\ (handoff # <<>> /\ earlier[1].handoff # <<>>) =>
               handoff[1].out = earlier[1].handoff[1].out
        /\ (chat # <<>> /\ earlier[1].chat # <<>> /\ chat[1].opts = earlier[1].chat[1].opts) =>
               chat = earlier[1].chat

-----------------------------------------------------------------------------
(* Vocabulary of the property about parseJsonl.                             *)

\* the lines JSON.parse accepts, and those of them whose value JavaScript takes for true
ParsingLines == {n \in 1..Len(jsonl.lines) : jsonl.lines[n].ok}
TruthyLines == {n \in ParsingLines : jsonl.lines[n].value \notin Falsy}

\* the k-th smallest member of a set of line numbers
NthOf(S, k) == CHOOSE n \in S : Cardinality({m \in S : m <= n}) = k

\* entries holds the values of the lines of S, one each, in line order
EntriesAreValuesOf(S) ==
    /\ Len(entries) = Cardinality(S)
    /\ \A k \in 1..Len(entries) : entries[k] = jsonl.lines[NthOf(S, k)].value

(* C16 as stated: parseJsonl returns exactly the values of the lines that   *)
(* parse, in line order.                                                    *)
C16_ParsedLinesReturnedInOrder ==
    (jsonl.parsed /\ jsonl.lines # <<>>) => EntriesAreValuesOf(ParsingLines)

(* C16 amended: parseJsonl returns exactly the values of the lines that     *)
(* parse to a value JavaScript takes for true (every record does), in line  *)
(* order; a line that does not parse, and a line that parses to null,       *)
(* false, 0 or "", is dropped without a trace wherever it stands, the last  *)
(* line included, and changes neither the order nor the content of the      *)
(* other values.                                                            *)
C16_TruthyParsedLinesReturnedInOrder ==
    (jsonl.parsed /\ jsonl.lines # <<>>) => EntriesAreValuesOf(TruthyLines)

\* a parsed file of three lines: a record, a line that does not parse, another record
C16_Witness ==
    /\ jsonl.parsed
    /\ Len(jsonl.lines) = 3
    /\ ParsingLines = {1, 3}
    /\ entries = <<jsonl.lines[1].value, jsonl.lines[3].value>>
    /\ entries[1] # entries[2]

-----------------------------------------------------------------------------
(* Vocabulary of the property about rendered outcomes.                      *)

\* the tool_use blocks of the assistant records, which the narrative renders
NarrativeToolUses ==
    {p \in ToolUsePositions(entries) :
        entries[p[1]].type = "assistant" /\ entries[p[1]].role = "assistant"}

\* the section the narrative rendered for the tool_use block at position p
SectionsAt(p) ==
    {n \in 1..Len(NarrativeInvocations) :
        NarrativeInvocations[n].rec = p[1] /\ NarrativeInvocations[n].blk = p[2]}

(* C17: with outcome bodies switched on, the narrative has a section for    *)
(* every tool_use invocation; the section of an invocation with an outcome  *)
(* shows the resolved outcome, and the section of an invocation with no     *)
(* outcome in the log shows a marker in the place of the outcome.           *)
C17_OutcomeOrPendingMarkerRendered ==
    (chat # <<>> /\ chat[1].opts.includeResults) =>
        \A p \in NarrativeToolUses :
            /\ Cardinality(SectionsAt(p)) = 1
            /\ \A n \in SectionsAt(p) :
                  LET section == NarrativeInvocations[n]
                  IN IF Pending(entries, section.id)
                     THEN section.shown # <<>>
                     ELSE /\ section.result # <<>>
                          /\ section.result[1].src = LastOutcomeOf(entries, section.id)
                          /\ section.shown # <<>>

-----------------------------------------------------------------------------
(* Vocabulary of the property about the narrative options.                  *)

\* the document of the log under other options, all else as in the run
DocumentUnder(opts) == convertToMarkdown(entries, SessionId, opts, git, now).parts

\* an assistant record of which only thinking blocks could be rendered
ThinkingOnly(i) ==
    \A k \in 1..Len(entries[i].content) : entries[i].content[k].type \notin {"text", "tool_use"}

\* a document without its thinking sections, and without the heading and the rule
\* of the records that show nothing else
WithoutThinking(parts) ==
    SelectSeq(parts, LAMBDA part :
        /\ part.kind # "thinking"
        /\ ~(part.kind \in {"assistant", "rule"} /\ ThinkingOnly(part.rec)))

\* a document with the outcome body of every invocation taken out
WithoutResults(parts) ==
    [n \in 1..Len(parts) |->
        IF parts[n].kind # "tool" THEN parts[n]
        ELSE [parts[n] EXCEPT
                !.shown = <<>>,
                !.result = IF @ = <<>> THEN @ ELSE <<[@[1] EXCEPT !.shown = <<>>]>>]]

(* C18: includeThinking and includeResults act independently.  Whatever the *)
(* other option is, the document without results is the document with       *)
(* results less the outcome bodies, every invocation keeping its header and *)
(* its inputs; and the document without thinking is the document with       *)
(* thinking less the thinking blocks, every text block, invocation and      *)
(* outcome body unchanged.                                                  *)
C18_OptionsActIndependently ==
    chat # <<>> =>
        LET opts == chat[1].opts
            withResults == DocumentUnder([opts EXCEPT !.includeResults = TRUE])
            noResults == DocumentUnder([opts EXCEPT !.includeResults = FALSE])
            withThinking == DocumentUnder([opts EXCEPT !.includeThinking = TRUE])
            noThinking == DocumentUnder([opts EXCEPT !.includeThinking = FALSE])
        IN /\ chat[1].parts = DocumentUnder(opts)
           /\ noResults = WithoutResults(withResults)
           /\ noThinking = WithoutThinking(withThinking)
           /\ \A n \in 1..Len(noThinking) : noThinking[n].kind # "thinking"

\* a document made without thinking and with results, of a log with a thinking block
\* and a resolved invocation: the outcome body is there, the thinking block is not
C18_Witness ==
    /\ chat # <<>>
    /\ ~chat[1].opts.includeThinking
    /\ chat[1].opts.includeResults
    /\ \E n \in 1..Len(chat[1].parts) :
          chat[1].parts[n].kind = "tool" /\ chat[1].parts[n].shown # <<>>
    /\ \E n \in 1..Len(DocumentUnder([chat[1].opts EXCEPT !.includeThinking = TRUE])) :
          DocumentUnder([chat[1].opts EXCEPT !.includeThinking = TRUE])[n].kind = "thinking"
    /\ \A n \in 1..Len(chat[1].parts) : chat[1].parts[n].kind # "thinking"

-----------------------------------------------------------------------------
(* C19: in main of both scripts the output file is written only after      *)
(* parseJsonl and the formatter have returned, it holds the whole          *)
(* projection, and a run that ends on a fatal path (no session files, the   *)
(* session file not found, an exception while parsing or formatting) ends   *)
(* with no output file written.                                             *)
C19_NoOutputBeforeProjection ==
    /\ run.outFile # <<>> =>
          /\ run.pc = "returned"
          /\ jsonl.parsed
          /\ entries = parseJsonl(jsonl.lines)
          /\ run.script = "export-continue" =>
                 (handoff # <<>> /\ run.outFile[1].body = handoff[1].out)
          /\ run.script = "export-chat" =>
                 (chat # <<>> /\ run.outFile[1].body = chat[1])
    /\ run.pc \in {"exit1", "threw"} => run.outFile = <<>>
    /\ (run.pc = "returned" /\ run.list) => run.outFile = <<>>

\* a run whose formatter threw after the session file was parsed: no output file,
\* though the output directory was there to write to
C19_Witness ==
    /\ run.pc = "threw"
    /\ jsonl.parsed
    /\ entries # <<>>
    /\ run.dir
    /\ run.outFile = <<>>

-----------------------------------------------------------------------------
(* Vocabulary of the property about written files.                          *)

\* the Write invocations with a file path that the compact projection handles, and
\* those of them that carry content
WritesWithPath ==
    {p \in CompactToolUses :
        BlockAt(entries, p).name = "Write" /\ BlockAt(entries, p).input.file_path # <<>>}
WritesWithContent == {p \in WritesWithPath : BlockAt(entries, p).input.content # <<>>}

\* the file of the change entry a Write makes
WrittenFile(p) == shortPath(BlockAt(entries, p).input.file_path)

\* no later Write names the same file
LastWriteOfFile(p) ==
    \A q \in WritesWithPath : (WrittenFile(q) = WrittenFile(p)) => (q = p \/ Before(q, p))

\* a later Edit names the same file
EditedLater(p) ==
    \E q \in CompactToolUses :
        /\ BlockAt(entries, q).name = "Edit"
        /\ BlockAt(entries, q).input.file_path # <<>>
        /\ shortPath(BlockAt(entries, q).input.file_path) = WrittenFile(p)
        /\ Before(p, q)

\* the number of newline-separated lines of a text
NewlineSeparatedLines(text) == 1 + Cardinality({n \in 1..Len(text) : text[n] = "\n"})

\* the handoff has exactly one change entry for the file of the Write at p, of the
\* given action and with the summary "<N> lines written", and no error is due to p
WriteEntry(p, action) ==
    LET made == {n \in 1..Len(Out.changes) : Out.changes[n].file = WrittenFile(p)}
        errors == IF "errors" \in DOMAIN Out THEN Out.errors ELSE <<>>
    IN /\ Cardinality(made) = 1
       /\ \A n \in made :
             /\ Out.changes[n].action = action
             /\ "summary" \in DOMAIN Out.changes[n]
             /\ Out.changes[n].summary =
                    Digits(NewlineSeparatedLines(BlockAt(entries, p).input.content))
                    \o <<" ", "l", "i", "n", "e", "s", " ", "w", "r", "i", "t", "t", "e", "n">>
       /\ ~Failed(p)
       /\ Len(errors) = Cardinality({q \in CompactToolUses : Failed(q)})

(* C20 as stated, read for the last Write of each file: a Write invocation  *)
(* with a file path and content and no outcome in the log makes a change    *)
(* entry for the file with action "created" and summary "<N> lines          *)
(* written", N the number of newline-separated lines of the content, and    *)
(* makes no error entry.                                                    *)
C20_WriteMakesCreatedEntry ==
    handoff # <<>> =>
        \A p \in WritesWithContent :
            (Pending(entries, BlockAt(entries, p).id) /\ LastWriteOfFile(p)) =>
                WriteEntry(p, "created")

(* C20 amended: the last Write of a file, with content and no outcome,      *)
(* makes exactly one change entry for the file, with summary "<N> lines     *)
(* written" and no error entry; its action is "created" when no later Edit  *)
(* names the file and "modified" when one does.                             *)
C20_LastWriteMakesCreatedEntry ==
    handoff # <<>> =>
        \A p \in WritesWithContent :
            (Pending(entries, BlockAt(entries, p).id) /\ LastWriteOfFile(p)) =>
                WriteEntry(p, IF EditedLater(p) THEN "modified" ELSE "created")

\* the handoff of a log whose only record writes two lines to a file and has no
\* outcome: one change entry, "2 lines written", and no errors field
C20_Witness ==
    /\ handoff # <<>>
    /\ Len(entries) = 1
    /\ WritesWithContent # {}
    /\ Len(Out.changes) = 1
    /\ Out.changes[1].action = "created"
    /\ Out.changes[1].summary = <<"2">> \o LinesWritten
    /\ "errors" \notin DOMAIN Out

-----------------------------------------------------------------------------
(* C21: the turn counter is incremented only by genuine user conversational *)
(* records (renderable text once system tags are stripped, no tool_result   *)
(* block), so that the user segments of the digest are numbered 1, 2, ...,  *)
(* k with no gaps.                                                          *)
C21_UserSegmentsNumberedWithoutGaps ==
    handoff # <<>> =>
        /\ \A i \in 1..Len(entries) :
              TurnAfter(i) # TurnAfter(i - 1) => Genuine(entries[i])
        /\ \A n \in SegmentsOf("user") :
              Digest[n].turn = Cardinality(UserSegmentsBefore(n)) + 1

-----------------------------------------------------------------------------
(* Vocabulary of the property about the order of the narrative.             *)

\* the kind of section each kind of block is rendered as, in a user turn and in an
\* assistant record
SectionKindOf(role, type) ==
    IF role = "user"
    THEN (IF type = "text" THEN "user-text" ELSE IF type = "image" THEN "image" ELSE "none")
    ELSE (IF type = "text" THEN "text" ELSE IF type = "thinking" THEN "thinking"
          ELSE IF type = "tool_use" THEN "tool" ELSE "none")

\* sections that render one content block; the others are headings and rules
BlockSection(part) == part.kind \in {"user-text", "image", "text", "thinking", "tool"}

(* C22: the Conversation section is a strict chronological replay.  Along   *)
(* the document the records of the sections never go back; within a record  *)
(* the heading comes first, the rule last, and the sections of the blocks   *)
(* follow the order of the blocks, one section per block at most; every     *)
(* section of a block renders the block at its position.                    *)
C22_StrictChronologicalReplay ==
    chat # <<>> =>
        LET parts == chat[1].parts
        IN /\ \A n, m \in 1..Len(parts) :
                 n < m =>
                    /\ parts[n].rec <= parts[m].rec
                    /\ parts[n].rec = parts[m].rec =>
                          /\ parts[m].kind \notin {"user", "assistant"}
                          /\ parts[n].kind # "rule"
                          /\ (BlockSection(parts[n]) /\ BlockSection(parts[m]))
                                => parts[n].blk < parts[m].blk
           /\ \A n \in 1..Len(parts) :
                 /\ parts[n].rec \in 1..Len(entries)
                 /\ BlockSection(parts[n]) =>
                       /\ parts[n].blk \in 1..Len(entries[parts[n].rec].content)
                       /\ parts[n].kind =
                             SectionKindOf(entries[parts[n].rec].role,
                                           entries[parts[n].rec].content[parts[n].blk].type)

\* a document of three records: a user turn, then an assistant record whose thinking
\* and text sections follow in block order, then an invocation
C22_Witness ==
    /\ chat # <<>>
    /\ Len(entries) = 3
    /\ \E a, b, c, d \in 1..Len(chat[1].parts) :
          /\ a < b /\ b < c /\ c < d
          /\ chat[1].parts[a].kind = "user-text" /\ chat[1].parts[a].rec = 1
          /\ chat[1].parts[b].kind = "thinking" /\ chat[1].parts[b].rec = 2
          /\ chat[1].parts[c].kind = "text" /\ chat[1].parts[c].rec = 2
          /\ chat[1].parts[d].kind = "tool" /\ chat[1].parts[d].rec = 3

-----------------------------------------------------------------------------
(* Vocabulary of the property about the change list.                        *)

\* the Write and Edit invocations with a file path that the compact projection handles
Touches ==
    {p \in CompactToolUses :
        /\ BlockAt(entries, p).name \in {"Write", "Edit"}
        /\ BlockAt(entries, p).input.file_path # <<>>}

TouchedFile(p) == shortPath(BlockAt(entries, p).input.file_path)

\* the last Write or Edit of a file
LastTouch(f) ==
    CHOOSE p \in Touches :
        /\ TouchedFile(p) = f
        /\ \A q \in Touches : TouchedFile(q) = f => (q = p \/ Before(q, p))

\* the Edits of a file that carry both strings and that no Write of the file follows
EditsKept(f) ==
    {p \in Touches :
        /\ TouchedFile(p) = f
        /\ BlockAt(entries, p).name = "Edit"
        /\ BlockAt(entries, p).input.has_old /\ BlockAt(entries, p).input.has_new
        /\ \A q \in Touches :
              (TouchedFile(q) = f /\ BlockAt(entries, q).name = "Write") => Before(q, p)}

(* C23: each file appears at most once in changes, the files of changes are *)
(* those of the Write and Edit invocations, and the action of a file is     *)
(* "created" if its last Write or Edit is a Write and "modified" if it is   *)
(* an Edit; an entry with action "created" carries no edits, and the edits  *)
(* an entry carries are those recorded after the last Write of the file.    *)
C23_ChangesFollowLastWriteOrEdit ==
    handoff # <<>> =>
        /\ \A n, m \in 1..Len(Out.changes) :
              Out.changes[n].file = Out.changes[m].file => n = m
        /\ {Out.changes[n].file : n \in 1..Len(Out.changes)} = {TouchedFile(p) : p \in Touches}
        /\ \A n \in 1..Len(Out.changes) :
              LET entry == Out.changes[n]
                  last == BlockAt(entries, LastTouch(entry.file))
              IN /\ entry.action = IF last.name = "Write" THEN "created" ELSE "modified"
                 /\ entry.action = "created" => "edits" \notin DOMAIN entry
                 /\ "edits" \in DOMAIN entry <=> EditsKept(entry.file) # {}
                 /\ "edits" \in DOMAIN entry =>
                        Len(entry.edits) = Cardinality(EditsKept(entry.file))

\* the handoff of a log that edits a file and then writes it: one entry, created,
\* without the edit
C23_Witness ==
    /\ handoff # <<>>
    /\ Len(entries) = 2
    /\ BlockAt(entries, <<1, 1>>).name = "Edit"
    /\ BlockAt(entries, <<2, 1>>).name = "Write"
    /\ TouchedFile(<<1, 1>>) = TouchedFile(<<2, 1>>)
    /\ Len(Out.changes) = 1
    /\ Out.changes[1].action = "created"
    /\ "edits" \notin DOMAIN Out.changes[1]

-----------------------------------------------------------------------------
(* C24: the user-turn count of the Session Summary (stats.userTurns of      *)
(* collectStats) equals the number of "User (Turn N)" sections of the       *)
(* Conversation section, the final value of turnCount, for every log.       *)
C24_SummaryTurnsMatchConversation ==
    chat # <<>> =>
        /\ chat[1].turnCount
              = Cardinality({n \in 1..Len(chat[1].parts) : chat[1].parts[n].kind = "user"})
        /\ chat[1].stats.userTurns = chat[1].turnCount

-----------------------------------------------------------------------------
(* C25: for the same log the two projections report the same totals:        *)
(* session.tool_calls and session.error_count of the handoff equal          *)
(* toolCalls and toolErrors of collectStats.                                *)
C25_ProjectionsReportSameTotals ==
    handoff # <<>> =>
        LET stats == collectStats(entries, buildToolResultMap(entries))
        IN /\ Out.session.tool_calls = stats.toolCalls
           /\ Out.session.error_count = stats.toolErrors

-----------------------------------------------------------------------------
(* Vocabulary of the property about outcome containers.                     *)

\* the user records that contain a tool_result block
Containers == {i \in 1..Len(entries) : UserRecord(entries[i]) /\ OutcomeContainer(entries[i])}

\* the log with the text blocks of its outcome containers taken out
WithoutContainerText ==
    [i \in 1..Len(entries) |->
        IF i \in Containers
        THEN [entries[i] EXCEPT
                !.content = SelectSeq(@, LAMBDA block : block.type # "text")]
        ELSE entries[i]]

(* C26: a user record that contains a tool_result block is an outcome       *)
(* container as a whole.  None of its text blocks reaches the task, the     *)
(* conversation digest or the narrative transcript: task and digest are     *)
(* those of the log with the text of its containers taken out, no segment   *)
(* of the digest and no section of the narrative is built from a container, *)
(* and a container opens no turn in either projection.                      *)
C26_OutcomeContainerTextNeverShown ==
    /\ handoff # <<>> =>
          LET bare == extractHandoff(WithoutContainerText, SessionId, git)
          IN /\ Out.task = bare.out.task
             /\ Out.conversation_digest = bare.out.conversation_digest
             /\ \A i \in Containers :
                   /\ TurnAfter(i) = TurnAfter(i - 1)
                   /\ \A n \in 1..Len(Digest) : DigestRecs[n] # i
    /\ chat # <<>> =>
          /\ \A i \in Containers :
                \A n \in 1..Len(chat[1].parts) : chat[1].parts[n].rec # i
          /\ chat[1].turnCount
                = Cardinality({i \in 1..Len(entries) :
                      /\ entries[i].isArray
                      /\ entries[i].type \in {"user", "assistant"}
                      /\ entries[i].role = "user"
                      /\ ~OutcomeContainer(entries[i])})

\* the handoff of a log whose only record carries user-written text beside an outcome:
\* no task, an empty digest, no turn
C26_Witness ==
    /\ handoff # <<>>
    /\ Len(entries) = 1
    /\ Containers = {1}
    /\ RenderableText(entries[1])
    /\ Out.task = NoTask
    /\ Out.conversation_digest = <<>>
    /\ handoff[1].turnNum = 0

-----------------------------------------------------------------------------
(* Side effects of failed invocations.  The record family: a Write, an Edit *)
(* and a Read whose outcome has the error flag set, the same invocations    *)
(* with an outcome that has not, and the two outcomes.                      *)

EffectRecords ==
    { Entry("assistant", "assistant", <<ToolUse("Write", 2, WriteInput(PathA, TxtOut))>>),
      Entry("assistant", "assistant", <<ToolUse("Edit", 2, EditInput(PathB))>>),
      Entry("assistant", "assistant",
            <<ToolUse("Read", 2, [NoInput EXCEPT !.file_path = PathA])>>),
      Entry("assistant", "assistant", <<ToolUse("Write", 1, WriteInput(PathB, TxtOut))>>),
      Entry("assistant", "assistant",
            <<ToolUse("Read", 1, [NoInput EXCEPT !.file_path = PathB])>>),
      Entry("user", "user", <<ToolResult(2, TRUE, TxtOut)>>),
      Entry("user", "user", <<ToolResult(1, FALSE, TxtOk)>>) }

\* both scripts, on a log of EffectRecords
SpecEffects ==
    InitLog(EffectRecords, {CHOOSE g \in GitContexts : g.branch = "unknown"})
    /\ [][NextLog]_vars

\* the log with the error flag of every outcome cleared
WithoutErrorFlags ==
    [i \in 1..Len(entries) |->
        [entries[i] EXCEPT
            !.content = [k \in 1..Len(@) |->
                            IF @[k].type = "tool_result"
                            THEN [@[k] EXCEPT !.is_error = FALSE] ELSE @[k]]]]

\* the failed invocations of the tool `name` that name a file
FailedOn(uses, name) ==
    {p \in uses : /\ BlockAt(entries, p).name = name
                  /\ BlockAt(entries, p).input.file_path # <<>>
                  /\ Failed(p)}

FileOf(p) == shortPath(BlockAt(entries, p).input.file_path)

Listed(seq, x) == \E n \in 1..Len(seq) : seq[n] = x

(* C27: side effects are recorded from the invocation alone, regardless of  *)
(* its outcome.  changes and files_read of the handoff, and filesWritten,   *)
(* filesEdited and filesRead of the narrative's statistics, are those of    *)
(* the same log with every error flag cleared; a failed Write or Edit has   *)
(* its file in changes, a failed Read in files_read, each beside an errors  *)
(* entry that names the file.                                               *)
C27_SideEffectsRegardlessOfOutcome ==
    /\ handoff # <<>> =>
          LET flagless == extractHandoff(WithoutErrorFlags, SessionId, git).out
          IN /\ Out.changes = flagless.changes
             /\ Out.files_read = flagless.files_read
             /\ \A p \in FailedOn(CompactToolUses, "Write") \cup FailedOn(CompactToolUses, "Edit") :
                   /\ \E n \in 1..Len(Changes) : Changes[n].file = FileOf(p)
                   /\ "errors" \in DOMAIN Out
                   /\ \E n \in 1..Len(Out.errors) :
                         /\ Out.errors[n].tool = BlockAt(entries, p).name
                         /\ Out.errors[n].input_summary = FileOf(p)
             /\ \A p \in FailedOn(CompactToolUses, "Read") :
                   /\ Listed(Out.files_read, FileOf(p))
                   /\ "errors" \in DOMAIN Out
                   /\ \E n \in 1..Len(Out.errors) :
                         /\ Out.errors[n].tool = "Read"
                         /\ Out.errors[n].input_summary = FileOf(p)
    /\ chat # <<>> =>
          LET flagless == collectStats(WithoutErrorFlags, buildToolResultMap(WithoutErrorFlags))
              stats == chat[1].stats
          IN /\ stats.filesWritten = flagless.filesWritten
             /\ stats.filesEdited = flagless.filesEdited
             /\ stats.filesRead = flagless.filesRead
             /\ \A p \in FailedOn(StatsToolUses, "Write") : Listed(stats.filesWritten, FileOf(p))
             /\ \A p \in FailedOn(StatsToolUses, "Edit") : Listed(stats.filesEdited, FileOf(p))
             /\ \A p \in FailedOn(StatsToolUses, "Read") : Listed(stats.filesRead, FileOf(p))
             /\ stats.toolErrors
                   = Cardinality({p \in StatsToolUses : Failed(p)})

\* a handoff that lists as created a file whose Write failed, beside the error
C27_Witness ==
    /\ handoff # <<>>
    /\ \E p \in FailedOn(CompactToolUses, "Write") :
          /\ \E n \in 1..Len(Changes) :
                Changes[n].file = FileOf(p) /\ Changes[n].action = "created"
          /\ \E n \in 1..Len(Out.errors) : Out.errors[n].input_summary = FileOf(p)

-----------------------------------------------------------------------------
(* The installer (install.js).  A path is the sequence of its parts, so     *)
(* that dstPath + ".backup" is a path of its own; a file's content is 0 for *)
(* a file that does not exist and a version number otherwise.  Directories  *)
(* (lines 40-42) hold no content and are not modelled.  SRC_DIR and         *)
(* TARGET_DIR are two directories.                                          *)

Absent == 0
FileContents == 1..MaxVersion

\* lines 19-24
FILES ==
    << [src |-> <<"scripts/", "export-chat.js">>, dst |-> <<"scripts/", "export-chat.js">>],
       [src |-> <<"scripts/", "export-continue.js">>, dst |-> <<"scripts/", "export-continue.js">>],
       [src |-> <<"commands/", "export.md">>, dst |-> <<".claude/", "commands/", "export.md">>],
       [src |-> <<"commands/", "export-continue.md">>,
        dst |-> <<".claude/", "commands/", "export-continue.md">>] >>

\* line 54: dstPath + ".backup"
BackupPath(dstPath) == Append(dstPath, ".backup")

SrcPaths == {FILES[f].src : f \in 1..Len(FILES)}
TargetPaths ==
    {FILES[f].dst : f \in 1..Len(FILES)} \cup {BackupPath(FILES[f].dst) : f \in 1..Len(FILES)}

\* fs.copyFileSync(from, to) inside TARGET_DIR, or from SRC_DIR into it
CopyFile(dir, content, to) == [dir EXCEPT ![to] = content]

\* the package as shipped, and a project nothing was installed into; `prior` notes,
\* per target, the content the most recent overwrite of an existing target replaced,
\* `copies` counts the copyFileSync calls of the run, `settled` says that a run has
\* completed and no file changed since, `changes` counts the changes between runs
InitInstall ==
    /\ LogIdle
    /\ TruncIdle
    /\ SelIdle
    /\ disk = [src |-> [p \in SrcPaths |-> 1], dst |-> [p \in TargetPaths |-> Absent]]
    /\ inst = [i |-> 0, installed |-> 0, skipped |-> 0, copies |-> 0,
               prior |-> [f \in 1..Len(FILES) |-> Absent],
               settled |-> FALSE, startedSettled |-> FALSE, changes |-> 0]

\* lines 26-32: a run begins
InstallStart ==
    /\ inst.i = 0
    /\ inst' = [inst EXCEPT !.i = 1, !.installed = 0, !.skipped = 0, !.copies = 0,
                            !.startedSettled = inst.settled]
    /\ UNCHANGED disk
    /\ UNCHANGED <<logVars, truncVars, selVars>>

\* a loop body that copies the source over the target before it makes the backup
InstallFileBackupAfterCopy ==
    /\ inst.i \in 1..Len(FILES)
    /\ LET file == FILES[inst.i]
           srcContent == disk.src[file.src]
           dstContent == disk.dst[file.dst]
           copied == CopyFile(disk.dst, srcContent, file.dst)
       IN IF dstContent # Absent /\ srcContent = dstContent
          THEN /\ inst' = [inst EXCEPT !.i = @ + 1, !.skipped = @ + 1]
               /\ UNCHANGED disk
          ELSE IF dstContent # Absent
          THEN /\ disk' = [disk EXCEPT
                             !.dst = CopyFile(copied, copied[file.dst], BackupPath(file.dst))]
               /\ inst' = [inst EXCEPT !.i = @ + 1, !.installed = @ + 1, !.copies = @ + 2,
                                       !.prior[inst.i] = dstContent]
          ELSE /\ disk' = [disk EXCEPT !.dst = copied]
               /\ inst' = [inst EXCEPT !.i = @ + 1, !.installed = @ + 1, !.copies = @ + 1]
    /\ UNCHANGED <<logVars, truncVars, selVars>>

\* lines 34-63: the loop body for FILES[inst.i]
InstallFile ==
    /\ inst.i \in 1..Len(FILES)
    /\ LET file == FILES[inst.i]
           srcContent == disk.src[file.src]
           dstContent == disk.dst[file.dst]
       IN IF dstContent # Absent /\ srcContent = dstContent
          THEN /\ inst' = [inst EXCEPT !.i = @ + 1, !.skipped = @ + 1]
               /\ UNCHANGED disk
          ELSE IF dstContent # Absent
          THEN /\ disk' = [disk EXCEPT
                             !.dst = CopyFile(CopyFile(@, dstContent, BackupPath(file.dst)),
                                              srcContent, file.dst)]
               /\ inst' = [inst EXCEPT !.i = @ + 1, !.installed = @ + 1, !.copies = @ + 2,
                                       !.prior[inst.i] = dstContent]
          ELSE /\ disk' = [disk EXCEPT !.dst = CopyFile(@, srcContent, file.dst)]
               /\ inst' = [inst EXCEPT !.i = @ + 1, !.installed = @ + 1, !.copies = @ + 1]
    /\ UNCHANGED <<logVars, truncVars, selVars>>

\* lines 65-75: the run reports and ends
InstallDone ==
    /\ inst.i = Len(FILES) + 1
    /\ inst' = [inst EXCEPT !.i = 0, !.settled = TRUE]
    /\ UNCHANGED disk
    /\ UNCHANGED <<logVars, truncVars, selVars>>

\* between two runs another version of the package brings new content for a source
Release(f, content) ==
    /\ inst.i = 0
    /\ inst.changes < MaxChanges
    /\ disk.src[FILES[f].src] # content
    /\ disk' = [disk EXCEPT !.src[FILES[f].src] = content]
    /\ inst' = [inst EXCEPT !.changes = @ + 1, !.settled = FALSE]
    /\ UNCHANGED <<logVars, truncVars, selVars>>

\* between two runs the user edits or deletes an installed file
UserEdit(f, content) ==
    /\ inst.i = 0
    /\ inst.changes < MaxChanges
    /\ disk.dst[FILES[f].dst] # content
    /\ disk' = [disk EXCEPT !.dst[FILES[f].dst] = content]
    /\ inst' = [inst EXCEPT !.changes = @ + 1, !.settled = FALSE]
    /\ UNCHANGED <<logVars, truncVars, selVars>>

NextInstall ==
    \/ InstallStart
    \/ InstallFile
    \/ InstallDone
    \/ \E f \in 1..Len(FILES), content \in FileContents : Release(f, content)
    \/ \E f \in 1..Len(FILES), content \in FileContents \cup {Absent} : UserEdit(f, content)

SpecInstall == InitInstall /\ [][NextInstall]_vars

\* the loop body has just handled FILES[f]
Handled(f) == inst.i = f /\ inst'.i = f + 1

(* C28: when the installer overwrites an existing target whose content      *)
(* differs from the source, the target's content is in <target>.backup      *)
(* afterwards and the target holds the source's; a target whose content     *)
(* equals the source is neither overwritten nor backed up (no copy is made, *)
(* the file system stays as it is).  Over any sequence of runs the backup   *)
(* of a target holds the content the target had before its most recent      *)
(* overwrite (and does not exist when there was none), and a run that       *)
(* starts right after a completed run, nothing having changed in between,   *)
(* makes no copy.                                                           *)
C28_BackupHoldsContentBeforeLastOverwrite ==
    /\ [][\A f \in 1..Len(FILES) :
            LET dstPath == FILES[f].dst
                srcContent == disk.src[FILES[f].src]
                dstContent == disk.dst[dstPath]
            IN Handled(f) =>
                 /\ (dstContent # Absent /\ dstContent # srcContent) =>
                       /\ disk'.dst[BackupPath(dstPath)] = dstContent
                       /\ disk'.dst[dstPath] = srcContent
                       /\ inst'.copies = inst.copies + 2
                 /\ (dstContent # Absent /\ dstContent = srcContent) =>
                       /\ disk' = disk
                       /\ inst'.copies = inst.copies
                       /\ inst'.skipped = inst.skipped + 1
                 /\ \A p \in TargetPaths \ {dstPath, BackupPath(dstPath)} :
                       disk'.dst[p] = disk.dst[p]]_vars
    /\ [](inst # <<>> =>
            /\ \A f \in 1..Len(FILES) :
                  disk.dst[BackupPath(FILES[f].dst)] = inst.prior[f]
            /\ inst.startedSettled => inst.copies = 0 /\ inst.installed = 0)

\* after two changes and the runs that followed them, a backup that holds what the
\* target had before the last overwrite, another content than the target's, and a
\* run that found everything up to date
C28_Witness ==
    /\ inst # <<>>
    /\ inst.i = 0
    /\ inst.startedSettled
    /\ inst.changes = 2
    /\ inst.skipped = Len(FILES)
    /\ \E f \in 1..Len(FILES) :
          /\ disk.dst[BackupPath(FILES[f].dst)] # Absent
          /\ disk.dst[BackupPath(FILES[f].dst)] # disk.dst[FILES[f].dst]
          /\ disk.dst[BackupPath(FILES[f].dst)] = inst.prior[f]
          /\ disk.dst[FILES[f].dst] = disk.src[FILES[f].src]

=============================================================================
